---------------------------- MODULE Spec2Model ----------------------------
(***************************************************************************)
(* Title synchronisation and review ingestion of imdb_ratings.             *)
(*                                                                         *)
(*   Spec        update_reviews_table driving get_reviews_from_title_code  *)
(*               against a remote review source and the two store tables.  *)
(*   SpecTitles  update_title_table: the diff of the catalog against the   *)
(*               persisted titles, and its batched upsert.                 *)
(*   SpecFilter  the filter at the end of get_reviews_from_title_code on   *)
(*               arbitrary accumulated review lists.                       *)
(*   SpecBackoff one fetch session under any max_retries argument, with    *)
(*               rate-limited responses only.                              *)
(*   SpecRerun   successive runs of update_reviews_table over one title    *)
(*               whose source answers every run with the same pages.       *)
(*   SpecBatch   upsert_batch on review frames of every length.            *)
(*   SpecWorklist  update_reviews_table building its own list of titles.   *)
(*   SpecScenario  the title update followed by the review update, on one  *)
(*               title.                                                    *)
(*   SpecCodes   the formatting of title codes and their parse.            *)
(*   SpecClient  threads calling get_client and close of                   *)
(*               DatabaseConnectionManager.                                *)
(*   SpecClassify  get_json_reviews on one response of the transport.      *)
(*   SpecGrowth  successive runs of update_title_table, each on a fresh    *)
(*               catalog whose counts have grown by less than 5%.         *)
(*   SpecFetch   fetch_all reading a table page by page.                    *)
(*   SpecSession one fetch session under any max_retries argument from 0,  *)
(*               with every kind of response, run to its end.             *)
(***************************************************************************)
EXTENDS Integers, Sequences, FiniteSets, TLC

VARIABLES
    titles_table,           \* store: id -> [num_votes, needsUpdate, firstWorld]
    reviews_table,          \* store: the review rows, one per review_id
    title_df_from_imdb,     \* catalog snapshot: id -> num_votes
    titles_to_update,       \* update_reviews_table: the list of title ids
    idx,                    \* update_reviews_table: position in the list (enumerate)
    pc,                     \* control point of the running function
    has_next_page,          \* get_reviews_from_title_code locals
    cursor,
    reviews,
    consecutive_failures,
    retry_count,
    wait_time,              \* the sleep of the latest rate-limit handler (0: none yet)
    max_retries,
    review_df,              \* the DataFrame get_reviews_from_title_code returned
    batch_i,                \* upsert_batch: offset i of the next batch
    upsert_calls,           \* history: the batches upsert_batch has sent, in order
    profile,                \* remote source: what the current title's pages hold
    status,                 \* history: how each list position's iteration ended
    faults,                 \* history: failed responses the session received
    answers,                \* history: hasNextPage of each page the session received
    none_run,               \* history: None responses received in a row, up to now
    nones_since_page,       \* history: None responses since the latest page
    table0,                 \* history: titles_table when the run started
    sessions,               \* history: the list positions whose session was started
    upserted_for,           \* history: titles with a successful review upsert call
    flag_writes,            \* history: titles whose needsUpdate the run has written
    rows_selected,          \* history: rows update_title_table chose to upsert
    rows_sent,              \* history: rows its store calls have written
    last_response,          \* history: kind of the latest response of the session
    rate_limits,            \* history: rate-limited responses the session absorbed
    discarded,              \* history: titles whose session raised holding reviews
    rerun,                  \* SpecRerun: the frame every processing of the title yields
    imdb_id,                \* SpecCodes: the title code a caller has formatted
    manager,                \* SpecClient: DatabaseConnectionManager and its history
    threads,                \* SpecClient: each thread's position in get_client
    response,               \* SpecClassify: what the transport got for a request
    outcome,                \* SpecClassify: how get_json_reviews ended
    fetch                   \* SpecFetch: the table, locals and requests of fetch_all

vars ==
    << titles_table, reviews_table, title_df_from_imdb, titles_to_update, idx, pc,
       has_next_page, cursor, reviews, consecutive_failures, retry_count, max_retries,
       review_df, batch_i, upsert_calls, profile, status, faults, answers, none_run,
       nones_since_page, table0, sessions, upserted_for, flag_writes, rows_selected,
       rows_sent, wait_time, last_response, rate_limits, discarded, rerun, imdb_id,
       manager, threads, response, outcome, fetch >>

sessionVars ==
    << has_next_page, cursor, reviews, consecutive_failures, retry_count, wait_time >>

\* What only get_client, get_json_reviews, fetch_all and the formatting of a
\* code work on.
callVars ==
    << imdb_id, manager, threads, response, outcome, fetch >>

\* What no step of update_reviews_table touches.
titleRunVars ==
    << title_df_from_imdb, rows_selected, rows_sent, rerun, callVars >>

-----------------------------------------------------------------------------
(* Bounds of the model *)

MaxFaults == 3          \* failed responses the source gives one session
MaxPages == 4           \* the source holds at most this many pages per title
MaxDfLen == 2           \* SpecFilter: length of the accumulated review list
batch_size == 2         \* SupabaseConfig.batch_size as configured for the model
MaxRetriesArg == 7      \* SpecBackoff: largest max_retries argument of a session
MaxSessionRetries == 4  \* SpecSession: largest max_retries argument of a session
MaxRuns == 3            \* SpecRerun: runs of update_reviews_table in a row
MaxRecords == 5         \* SpecBatch: rows of the frame handed to upsert_batch
MaxCodeId == 40         \* SpecCodes: the small title ids run from 0 to this
MaxCalls == 2           \* SpecClient: get_client and close calls of one thread

(* Program constants *)

SCRAPER_MAX_RETRIES == 3
SCRAPER_MAX_CONSECUTIVE_FAILURES == 3
RATE_LIMIT_BASE_WAIT_SECONDS == 60
RATE_LIMIT_MAX_WAIT_SECONDS == 300
min_helpful_votes == 1
min_review_words == 100
VOTE_INCREASE_THRESHOLD_PCT == 105      \* VOTE_INCREASE_THRESHOLD = 1.05, in hundredths
TITLE_ID_MIN_DIGITS == 7                \* the 07d of IMDB_TITLE_ID_FORMAT
FIRST_WORLD_ZFILL == 8                  \* the zfill(8) of update_first_world
DB_MAX_RETRIES == 3                     \* DatabaseConnectionManager._max_retries
DB_RETRY_DELAY == 1                     \* DatabaseConnectionManager._retry_delay, seconds
HTTP_STATUS_RATE_LIMITED == 429

NoRating == 0           \* rating: None (present ratings are 1..10)
NoRow == -1             \* num_votes_supabase: null after the left join
EmptyCursor == 0        \* cursor "" ; the endCursor of page k is the token k + 1
NoClient == 0           \* _client is None; the n-th client created is the object n
NoThread == 0           \* _lock is held by no thread

\* The threads that call get_client.
Threads == { 1, 2 }

\* The title ids of the model: enough for a title before and a title after any
\* title of the list.
TitleIds == { 1, 2 }

\* Requests the current session has issued: each one got a page or a failure.
nreq == Len(answers) + faults

Min(a, b) == IF a < b THEN a ELSE b

\* Failed responses the source gives one session: enough for a session to use
\* up its rate-limit retries.
FaultBudget == IF max_retries > MaxFaults THEN max_retries ELSE MaxFaults

SeqSet(seq) == { seq[k] : k \in 1..Len(seq) }

-----------------------------------------------------------------------------
(* Title codes: utils.format_imdb_id and the parse in extract_reviews_from_json *)

DigitChars == << "0", "1", "2", "3", "4", "5", "6", "7", "8", "9" >>

RECURSIVE Digits(_)
Digits(n) ==
    IF n < 10 THEN << DigitChars[n + 1] >>
    ELSE Digits(n \div 10) \o << DigitChars[(n % 10) + 1] >>

RECURSIVE ZeroPad(_, _)
ZeroPad(s, width) ==
    IF Len(s) >= width THEN s ELSE ZeroPad(<< "0" >> \o s, width)

IMDB_TITLE_ID_PREFIX == << "t", "t" >>

format_imdb_id(title_id) ==
    IMDB_TITLE_ID_PREFIX \o ZeroPad(Digits(title_id), TITLE_ID_MIN_DIGITS)

DigitValue(ch) == CHOOSE d \in 0..9 : DigitChars[d + 1] = ch

RECURSIVE ParseInt(_)
ParseInt(s) ==
    IF Len(s) = 0 THEN 0
    ELSE 10 * ParseInt(SubSeq(s, 1, Len(s) - 1)) + DigitValue(s[Len(s)])

title_id_of_code(title_code) ==
    ParseInt(SubSeq(title_code, Len(IMDB_TITLE_ID_PREFIX) + 1, Len(title_code)))

-----------------------------------------------------------------------------
(* The remote review source *)

Profiles == { "none", "weak", "mixed" }

\* One review node of a page: numeric id, authorRating, helpfulness, word count.
Node(id, rating, up, words) ==
    [ id |-> id, authorRating |-> rating, upVotes |-> up, downVotes |-> 0,
      words |-> words ]

\* A node no filter accepts, varied by page: no rating, too few helpful votes,
\* too few words.
WeakNode(id, page) ==
    CASE page % 3 = 0 -> Node(id, NoRating, 2, 150)
      [] page % 3 = 1 -> Node(id, 7, 1, 150)
      [] OTHER        -> Node(id, 7, 2, 99)

\* The edges of page `page` (0-based) of title `t` under profile `p`.
PageEdges(p, t, page) ==
    CASE p = "none"  -> << >>
      [] p = "weak"  -> << WeakNode(100 * t + 10 * page + 1, page) >>
      [] OTHER       -> << Node(100 * t + 10 * page + 1, 7, 2, 100 + 50 * (page % 2)),
                           WeakNode(100 * t + 10 * page + 2, page) >>

\* The reviews payload of a successful response to (cursor, title_code).
SourcePage(p, title_code, cur, hasNext) ==
    [ edges |-> PageEdges(p, title_id_of_code(title_code), cur),
      pageInfo |-> [ hasNextPage |-> hasNext, endCursor |-> cur + 1 ] ]

\* The same payload without its pageInfo member.
SourcePageNoInfo(p, title_code, cur) ==
    [ edges |-> PageEdges(p, title_id_of_code(title_code), cur) ]

\* What a request can be answered with, besides a page with pageInfo.
\*   "None"                 HTTP 5xx, or a null reviews member     (lines 155-158, 143)
\*   "RateLimitError"       HTTP 429                               (lines 119-122)
\*   "NetworkError"         timeout, connection error, HTTP 4xx    (lines 148-163)
\*   "DataValidationError"  no JSON, no data, no title/reviews     (lines 127-146)
\*   "KeyError"             a reviews payload without edges        (line 182)
\*   "no_pageInfo"          a reviews payload without pageInfo     (lines 272-273)
FatalKinds == { "NetworkError", "DataValidationError", "KeyError" }

-----------------------------------------------------------------------------
(* get_reviews_from_title_code: extraction and filter *)

ReviewData(node, title_code) ==
    [ review_id |-> node.id,
      title_id |-> title_id_of_code(title_code),
      rating |-> node.authorRating,
      num_helpful |-> node.upVotes,
      num_unhelpful |-> node.downVotes,
      num_words |-> node.words ]

extract_reviews_from_json(response_dict, title_code) ==
    [ k \in 1..Len(response_dict.edges) |->
        ReviewData(response_dict.edges[k], title_code) ]

AcceptsInclusive(r) ==
    /\ r.rating # NoRating
    /\ r.num_helpful >= min_helpful_votes
    /\ r.num_words >= min_review_words

\* Lines 299-303: the predicate of the filter.
Accepts(r) ==
    /\ r.rating # NoRating
    /\ r.num_helpful > min_helpful_votes
    /\ r.num_words >= min_review_words

RECURSIVE FilterSeq(_)
FilterSeq(s) ==
    IF s = << >> THEN << >>
    ELSE IF Accepts(Head(s)) THEN << Head(s) >> \o FilterSeq(Tail(s))
    ELSE FilterSeq(Tail(s))

stops_after_page(response_dict) == FALSE

\* Line 272: whether the session goes on after this page;
\* response_dict.get("pageInfo", {}).get("hasNextPage", False).
page_has_next(response_dict) ==
    IF "pageInfo" \in DOMAIN response_dict
    THEN response_dict.pageInfo.hasNextPage ELSE FALSE

stale_cursor(response_dict) == EmptyCursor

\* Line 273: response_dict.get("pageInfo", {}).get("endCursor", "").
page_end_cursor(response_dict) ==
    IF "pageInfo" \in DOMAIN response_dict
    THEN response_dict.pageInfo.endCursor ELSE EmptyCursor

rate_limit_wait_uncapped(n) == RATE_LIMIT_BASE_WAIT_SECONDS * n

\* Line 284: the wait before the retry that follows the n-th rate-limited response.
rate_limit_wait(n) ==
    Min(RATE_LIMIT_BASE_WAIT_SECONDS * n, RATE_LIMIT_MAX_WAIT_SECONDS)

abandons_late(failures) == failures > SCRAPER_MAX_CONSECUTIVE_FAILURES

\* Line 263: the failure budget is used up.
abandons(failures) == failures >= SCRAPER_MAX_CONSECUTIVE_FAILURES

unfiltered_df(revs) == revs

\* Lines 293-307: the empty frame is returned as it is, any other is filtered.
filtered_df(revs) ==
    IF revs = << >> THEN << >> ELSE FilterSeq(revs)

-----------------------------------------------------------------------------
(* The store *)

InsertReviews(table, batch) == table \o batch

\* Upsert of review rows, keyed on review_id: a row whose review_id the table
\* holds is overwritten in place, any other row is added.
UpsertReviews(table, batch) ==
    LET ids == { batch[k].review_id : k \in 1..Len(batch) }
        present == { table[k].review_id : k \in 1..Len(table) }
        rowOf(id) == CHOOSE r \in SeqSet(batch) : r.review_id = id
        isNew(r) == r.review_id \notin present
    IN  [ k \in 1..Len(table) |->
            IF table[k].review_id \in ids THEN rowOf(table[k].review_id) ELSE table[k] ]
        \o SelectSeq(batch, isNew)

\* BaseRepository.update with data {needsUpdate: False} and filter id = title_id.
UpdateNeedsUpdate(table, title_id) ==
    [ t \in DOMAIN table |->
        IF t = title_id THEN [ table[t] EXCEPT !.needsUpdate = FALSE ] ELSE table[t] ]

BatchOverlapping(data, i) == SubSeq(data, i + 1, Min(i + batch_size + 1, Len(data)))

\* The slice data[i : i + batch_size] of upsert_batch.
Batch(data, i) == SubSeq(data, i + 1, Min(i + batch_size, Len(data)))

-----------------------------------------------------------------------------
(* update_reviews_table *)

title_id == titles_to_update[idx]

title_code_of_first == format_imdb_id(titles_to_update[1])

\* update_reviews.py line 37: the code of the title of this iteration.
title_code == format_imdb_id(title_id)

\* All lists of distinct title ids (ids are the key of the titles table).
RECURSIVE DistinctSeqs(_)
DistinctSeqs(S) ==
    { << >> } \cup UNION { { << x >> \o s : s \in DistinctSeqs(S \ { x }) } : x \in S }

IdleSession ==
    /\ has_next_page = TRUE
    /\ cursor = EmptyCursor
    /\ reviews = << >>
    /\ consecutive_failures = 0
    /\ retry_count = 0
    /\ wait_time = 0

\* No thread is in get_client, no client exists, nothing was requested.
\* No call of fetch_all is under way.
IdleFetch ==
    [ pc |-> "idle", table |-> << >>, columns |-> "*", offset |-> 0,
      all_data |-> << >>, requests |-> << >> ]

IdleCalls ==
    /\ imdb_id = << >>
    /\ manager = [ _client |-> NoClient, _lock |-> NoThread, created |-> 0,
                   returned |-> { } ]
    /\ threads = [ t \in Threads |-> [ pc |-> "idle", calls |-> 0, attempt |-> 0,
                                     slept |-> << >> ] ]
    /\ response = << >>
    /\ outcome = "no_call"
    /\ fetch = IdleFetch

IdleTitleRun ==
    /\ title_df_from_imdb = << >>
    /\ rows_selected = << >>
    /\ rows_sent = << >>
    /\ rerun = << >>

Init ==
    /\ titles_table \in
         [ TitleIds -> [ num_votes : { 1000 }, needsUpdate : BOOLEAN,
                         firstWorld : { "true" } ] ]
    /\ table0 = titles_table
    /\ sessions = << >>
    /\ reviews_table = << >>
    /\ titles_to_update \in DistinctSeqs(TitleIds)
    /\ idx = 1
    /\ pc = "for"
    /\ IdleSession
    /\ max_retries = SCRAPER_MAX_RETRIES
    /\ review_df = << >>
    /\ batch_i = 0
    /\ upsert_calls = << >>
    /\ profile = "none"
    /\ status = [ k \in 1..Len(titles_to_update) |-> "pending" ]
    /\ faults = 0
    /\ answers = << >>
    /\ none_run = 0
    /\ nones_since_page = 0
    /\ upserted_for = { }
    /\ flag_writes = { }
    /\ last_response = "no_response"
    /\ rate_limits = 0
    /\ discarded = { }
    /\ IdleCalls
    /\ IdleTitleRun

\* Lines 36-41 and 243-249: the loop takes the next title and its session starts.
StartTitle ==
    /\ pc = "for"
    /\ idx <= Len(titles_to_update)
    /\ \E p \in Profiles : profile' = p
    /\ has_next_page' = TRUE
    /\ cursor' = EmptyCursor
    /\ reviews' = << >>
    /\ consecutive_failures' = 0
    /\ retry_count' = 0
    /\ wait_time' = 0
    /\ faults' = 0
    /\ answers' = << >>
    /\ none_run' = 0
    /\ nones_since_page' = 0
    /\ last_response' = "no_response"
    /\ rate_limits' = 0
    /\ sessions' = Append(sessions, idx)
    /\ pc' = "while"
    /\ UNCHANGED << titles_table, reviews_table, titles_to_update, idx, max_retries,
                    review_df, batch_i, upsert_calls, status, table0, upserted_for,
                    flag_writes, discarded >>
    /\ UNCHANGED titleRunVars

\* Lines 54-57: the list is exhausted, the run ends normally.
FinishRun ==
    /\ pc = "for"
    /\ idx > Len(titles_to_update)
    /\ pc' = "done"
    /\ UNCHANGED << titles_table, reviews_table, titles_to_update, idx, max_retries,
                    review_df, batch_i, upsert_calls, profile, status, faults,
                    answers, none_run, nones_since_page, table0, sessions,
                    upserted_for, flag_writes, last_response, rate_limits,
                    discarded >>
    /\ UNCHANGED sessionVars
    /\ UNCHANGED titleRunVars

\* Line 57: what update_reviews_table reports when the loop is over. The per-title
\* log lines of 37, 46 and 48 name one title each; no count is kept or reported.
final_report ==
    IF pc = "done" THEN [ message |-> "Reviews table update completed" ] ELSE << >>

EndIterationAborting(how) ==
    /\ status' = [ status EXCEPT ![idx] = how ]
    /\ idx' = IF how = "fetch_raised" THEN idx ELSE idx + 1
    /\ pc' = IF how = "fetch_raised" THEN "done" ELSE "for"
    /\ discarded' = IF how = "fetch_raised" /\ reviews # << >>
                    THEN discarded \cup { title_id } ELSE discarded
    /\ has_next_page' = TRUE
    /\ cursor' = EmptyCursor
    /\ reviews' = << >>
    /\ consecutive_failures' = 0
    /\ retry_count' = 0
    /\ wait_time' = 0
    /\ review_df' = << >>
    /\ batch_i' = 0
    /\ upsert_calls' = << >>
    /\ profile' = "none"
    /\ faults' = 0
    /\ answers' = << >>
    /\ none_run' = 0
    /\ nones_since_page' = 0
    /\ rate_limits' = 0

EndIterationRetrying(how) ==
    /\ status' = [ status EXCEPT ![idx] = how ]
    /\ idx' = IF how = "fetch_raised" THEN idx ELSE idx + 1
    /\ pc' = "for"
    /\ discarded' = IF how = "fetch_raised" /\ reviews # << >>
                    THEN discarded \cup { title_id } ELSE discarded
    /\ has_next_page' = TRUE
    /\ cursor' = EmptyCursor
    /\ reviews' = << >>
    /\ consecutive_failures' = 0
    /\ retry_count' = 0
    /\ wait_time' = 0
    /\ review_df' = << >>
    /\ batch_i' = 0
    /\ upsert_calls' = << >>
    /\ profile' = "none"
    /\ faults' = 0
    /\ answers' = << >>
    /\ none_run' = 0
    /\ nones_since_page' = 0
    /\ rate_limits' = 0

\* The iteration of the current title is over (normally, or through the handler
\* of lines 47-49, which logs and continues): the loop moves on, and the locals
\* of the finished call are gone. An exception that left the session took the
\* accumulated reviews with it.
EndIteration(how) ==
    /\ status' = [ status EXCEPT ![idx] = how ]
    /\ idx' = idx + 1
    /\ pc' = "for"
    /\ discarded' = IF how = "fetch_raised" /\ reviews # << >>
                    THEN discarded \cup { title_id } ELSE discarded
    /\ has_next_page' = TRUE
    /\ cursor' = EmptyCursor
    /\ reviews' = << >>
    /\ consecutive_failures' = 0
    /\ retry_count' = 0
    /\ wait_time' = 0
    /\ review_df' = << >>
    /\ batch_i' = 0
    /\ upsert_calls' = << >>
    /\ profile' = "none"
    /\ faults' = 0
    /\ answers' = << >>
    /\ none_run' = 0
    /\ nones_since_page' = 0
    /\ rate_limits' = 0

\* What no step of a fetch session touches.
sessionFrame ==
    << titles_table, reviews_table, titles_to_update, max_retries, table0, sessions,
       upserted_for, flag_writes >>

\* Lines 251-253: the outer loop head enters the retry loop with retry_count = 0.
WhileHasNextPage ==
    /\ pc = "while"
    /\ has_next_page
    /\ retry_count' = 0
    /\ pc' = IF 0 < max_retries THEN "request" ELSE "while"
    /\ UNCHANGED << has_next_page, cursor, reviews, consecutive_failures, wait_time,
                    idx, status, review_df, batch_i, upsert_calls, profile, faults,
                    answers, none_run, nones_since_page, last_response, rate_limits,
                    discarded >>
    /\ UNCHANGED sessionFrame
    /\ UNCHANGED titleRunVars

ResponsePageKeepsFailures ==
    /\ pc = "request"
    /\ \E hasNext \in BOOLEAN :
         /\ hasNext => cursor + 1 < MaxPages
         /\ LET response_dict == SourcePage(profile, title_code, cursor, hasNext)
            IN  /\ consecutive_failures' = consecutive_failures
                /\ has_next_page' = page_has_next(response_dict)
                /\ cursor' = page_end_cursor(response_dict)
                /\ reviews' = reviews \o extract_reviews_from_json(response_dict, title_code)
         /\ answers' = Append(answers, hasNext)
    /\ none_run' = 0
    /\ nones_since_page' = 0
    /\ last_response' = "page"
    /\ pc' = "while"
    /\ UNCHANGED << retry_count, wait_time, idx, status, review_df, batch_i, upsert_calls, profile,
                    faults, rate_limits, discarded >>
    /\ UNCHANGED sessionFrame
    /\ UNCHANGED titleRunVars

\* Lines 255-279: a page arrives.
ResponsePage ==
    /\ pc = "request"
    /\ \E hasNext \in BOOLEAN :
         /\ hasNext => cursor + 1 < MaxPages
         /\ LET response_dict == SourcePage(profile, title_code, cursor, hasNext)
            IN  /\ consecutive_failures' = 0
                /\ has_next_page' = page_has_next(response_dict)
                /\ cursor' = page_end_cursor(response_dict)
                /\ reviews' = reviews \o extract_reviews_from_json(response_dict, title_code)
         /\ answers' = Append(answers, hasNext)
    /\ none_run' = 0
    /\ nones_since_page' = 0
    /\ last_response' = "page"
    /\ pc' = "while"
    /\ UNCHANGED << retry_count, wait_time, idx, status, review_df, batch_i, upsert_calls, profile,
                    faults, rate_limits, discarded >>
    /\ UNCHANGED sessionFrame
    /\ UNCHANGED titleRunVars

\* Lines 271-279 on a reviews payload that has edges but no pageInfo: the
\* defaults of the two .get calls apply.
ResponseNoPageInfo ==
    /\ pc = "request"
    /\ faults < FaultBudget
    /\ LET response_dict == SourcePageNoInfo(profile, title_code, cursor)
       IN  /\ consecutive_failures' = 0
           /\ has_next_page' = page_has_next(response_dict)
           /\ cursor' = page_end_cursor(response_dict)
           /\ reviews' = reviews \o extract_reviews_from_json(response_dict, title_code)
    /\ faults' = faults + 1
    /\ none_run' = 0
    /\ nones_since_page' = 0
    /\ last_response' = "no_pageInfo"
    /\ pc' = "while"
    /\ UNCHANGED << retry_count, wait_time, idx, status, review_df, batch_i, upsert_calls, profile,
                    answers, rate_limits, discarded >>
    /\ UNCHANGED sessionFrame
    /\ UNCHANGED titleRunVars

ResponseNoneRestarts ==
    /\ pc = "request"
    /\ consecutive_failures' = consecutive_failures + 1
    /\ has_next_page' = IF abandons(consecutive_failures') THEN FALSE ELSE has_next_page
    /\ faults < FaultBudget
    /\ faults' = faults + 1
    /\ none_run' = none_run + 1
    /\ nones_since_page' = nones_since_page + 1
    /\ answers' = answers
    /\ last_response' = "None"
    /\ pc' = "while"
    /\ cursor' = EmptyCursor
    /\ UNCHANGED << reviews, retry_count, wait_time, idx, status, review_df,
                    batch_i, upsert_calls, profile, rate_limits, discarded >>
    /\ UNCHANGED sessionFrame
    /\ UNCHANGED titleRunVars

\* Lines 261-269: get_json_reviews returned None (HTTP 5xx or a null payload).
ResponseNone ==
    /\ pc = "request"
    /\ consecutive_failures' = consecutive_failures + 1
    /\ has_next_page' = IF abandons(consecutive_failures') THEN FALSE ELSE has_next_page
    /\ faults < FaultBudget
    /\ faults' = faults + 1
    /\ none_run' = none_run + 1
    /\ nones_since_page' = nones_since_page + 1
    /\ answers' = answers
    /\ last_response' = "None"
    /\ pc' = "while"
    /\ UNCHANGED << cursor, reviews, retry_count, wait_time, idx, status, review_df,
                    batch_i, upsert_calls, profile, rate_limits, discarded >>
    /\ UNCHANGED sessionFrame
    /\ UNCHANGED titleRunVars

ResponseRateLimitedResets ==
    /\ pc = "request"
    /\ faults < FaultBudget
    /\ last_response' = "RateLimitError"
    /\ IF retry_count + 1 < max_retries
       THEN /\ retry_count' = retry_count + 1
            /\ wait_time' = rate_limit_wait(retry_count')
            /\ consecutive_failures' = 0
            /\ faults' = faults + 1
            /\ rate_limits' = rate_limits + 1
            /\ none_run' = 0
            /\ nones_since_page' = nones_since_page
            /\ answers' = answers
            /\ pc' = "request"
            /\ UNCHANGED << has_next_page, cursor, reviews, idx, status, review_df,
                            batch_i, upsert_calls, profile, discarded >>
       ELSE EndIteration("fetch_raised")
    /\ UNCHANGED sessionFrame
    /\ UNCHANGED titleRunVars

ResponseRateLimitedCounts ==
    /\ pc = "request"
    /\ faults < FaultBudget
    /\ last_response' = "RateLimitError"
    /\ IF retry_count + 1 < max_retries
       THEN /\ retry_count' = retry_count + 1
            /\ wait_time' = rate_limit_wait(retry_count')
            /\ consecutive_failures' = consecutive_failures + 1
            /\ faults' = faults + 1
            /\ rate_limits' = rate_limits + 1
            /\ none_run' = 0
            /\ nones_since_page' = nones_since_page
            /\ answers' = answers
            /\ pc' = "request"
            /\ UNCHANGED << has_next_page, cursor, reviews, idx, status, review_df,
                            batch_i, upsert_calls, profile, discarded >>
       ELSE EndIteration("fetch_raised")
    /\ UNCHANGED sessionFrame
    /\ UNCHANGED titleRunVars

\* Lines 281-289: HTTP 429; wait and retry the cursor, or re-raise.
ResponseRateLimited ==
    /\ pc = "request"
    /\ faults < FaultBudget
    /\ last_response' = "RateLimitError"
    /\ IF retry_count + 1 < max_retries
       THEN /\ retry_count' = retry_count + 1
            /\ wait_time' = rate_limit_wait(retry_count')
            /\ faults' = faults + 1
            /\ rate_limits' = rate_limits + 1
            /\ none_run' = 0
            /\ nones_since_page' = nones_since_page
            /\ answers' = answers
            /\ pc' = "request"
            /\ UNCHANGED << has_next_page, cursor, reviews, consecutive_failures, idx,
                            status, review_df, batch_i, upsert_calls, profile,
                            discarded >>
       ELSE EndIteration("fetch_raised")
    /\ UNCHANGED sessionFrame
    /\ UNCHANGED titleRunVars

ResponseFatalMarks ==
    /\ pc = "request"
    /\ faults < FaultBudget
    /\ \E kind \in FatalKinds : last_response' = kind
    /\ titles_table' = UpdateNeedsUpdate(titles_table, title_id)
    /\ flag_writes' = flag_writes \cup { title_id }
    /\ EndIteration("fetch_raised")
    /\ UNCHANGED << reviews_table, titles_to_update, max_retries, table0, sessions,
                    upserted_for >>
    /\ UNCHANGED titleRunVars

ResponseFatalRetriesNetwork ==
    /\ pc = "request"
    /\ faults < FaultBudget
    /\ \E kind \in FatalKinds :
         /\ last_response' = kind
         /\ IF kind = "NetworkError" /\ retry_count + 1 < max_retries
            THEN /\ retry_count' = retry_count + 1
                 /\ faults' = faults + 1
                 /\ none_run' = 0
                 /\ nones_since_page' = nones_since_page
                 /\ pc' = "request"
                 /\ UNCHANGED << has_next_page, cursor, reviews, consecutive_failures,
                                 wait_time, idx, status, review_df, batch_i,
                                 upsert_calls, profile, answers, rate_limits,
                                 discarded >>
            ELSE EndIteration("fetch_raised")
    /\ UNCHANGED sessionFrame
    /\ UNCHANGED titleRunVars

ResponseFatalKeepsPartial ==
    /\ pc = "request"
    /\ faults < FaultBudget
    /\ \E kind \in FatalKinds : last_response' = kind
    /\ has_next_page' = FALSE
    /\ faults' = faults + 1
    /\ none_run' = 0
    /\ nones_since_page' = nones_since_page
    /\ discarded' = IF reviews # << >> THEN discarded \cup { title_id } ELSE discarded
    /\ pc' = "while"
    /\ UNCHANGED << cursor, reviews, consecutive_failures, retry_count, wait_time,
                    idx, status, review_df, batch_i, upsert_calls, profile, answers,
                    rate_limits >>
    /\ UNCHANGED sessionFrame
    /\ UNCHANGED titleRunVars

\* Lines 290-291 (NetworkError re-raised), 127-146 (DataValidationError) and 182
\* (KeyError), neither handled by the session: the exception leaves
\* get_reviews_from_title_code.
ResponseFatal ==
    /\ pc = "request"
    /\ faults < FaultBudget
    /\ \E kind \in FatalKinds : last_response' = kind
    /\ EndIteration("fetch_raised")
    /\ UNCHANGED sessionFrame
    /\ UNCHANGED titleRunVars

\* Lines 293-307: the loop is over, the filtered frame is returned.
SessionReturn ==
    /\ pc = "while"
    /\ ~has_next_page
    /\ review_df' = filtered_df(reviews)
    /\ pc' = "returned"
    /\ UNCHANGED << idx, status, batch_i, upsert_calls, profile, faults, answers,
                    none_run, nones_since_page, last_response, rate_limits,
                    discarded >>
    /\ UNCHANGED sessionVars
    /\ UNCHANGED sessionFrame
    /\ UNCHANGED titleRunVars

\* update_reviews.py lines 42-46: upsert and mark, or only log "No reviews found".
ProcessFrame ==
    /\ pc = "returned"
    /\ IF review_df # << >>
       THEN /\ pc' = "upsert"
            /\ UNCHANGED << idx, status, review_df, batch_i, upsert_calls, profile, faults, answers,
                            none_run, nones_since_page, rate_limits, discarded >>
            /\ UNCHANGED sessionVars
       ELSE EndIteration("empty")
    /\ UNCHANGED last_response
    /\ UNCHANGED sessionFrame
    /\ UNCHANGED titleRunVars

\* base.py lines 90-97: the store accepts the next batch.
UpsertBatchOk ==
    /\ pc = "upsert"
    /\ reviews_table' = UpsertReviews(reviews_table, Batch(review_df, batch_i))
    /\ upsert_calls' = Append(upsert_calls, Batch(review_df, batch_i))
    /\ batch_i' = batch_i + batch_size
    /\ upserted_for' = upserted_for \cup { title_id }
    /\ pc' = IF batch_i' < Len(review_df) THEN "upsert" ELSE "mark"
    /\ UNCHANGED << titles_table, titles_to_update, idx, max_retries, review_df,
                    profile, status, faults, answers, none_run, nones_since_page,
                    table0, sessions, flag_writes, last_response, rate_limits,
                    discarded >>
    /\ UNCHANGED sessionVars
    /\ UNCHANGED titleRunVars

UpsertBatchFailSkips ==
    /\ pc = "upsert"
    /\ batch_i' = batch_i + batch_size
    /\ pc' = IF batch_i' < Len(review_df) THEN "upsert" ELSE "mark"
    /\ UNCHANGED << idx, status, review_df, upsert_calls, profile, faults, answers,
                    none_run, nones_since_page, last_response, rate_limits, discarded >>
    /\ UNCHANGED sessionVars
    /\ UNCHANGED sessionFrame
    /\ UNCHANGED titleRunVars

UpsertBatchFailSwallowed ==
    /\ pc = "upsert"
    /\ pc' = "mark"
    /\ UNCHANGED << idx, status, review_df, batch_i, upsert_calls, profile, faults, answers,
                    none_run, nones_since_page, last_response, rate_limits, discarded >>
    /\ UNCHANGED sessionVars
    /\ UNCHANGED sessionFrame
    /\ UNCHANGED titleRunVars

\* base.py lines 98-100: the store call fails, DatabaseOperationError is raised;
\* update_reviews.py line 47 catches it.
UpsertBatchFail ==
    /\ pc = "upsert"
    /\ EndIteration("upsert_failed")
    /\ UNCHANGED last_response
    /\ UNCHANGED sessionFrame
    /\ UNCHANGED titleRunVars

\* title_repository.py lines 63-74: needsUpdate := False for the title.
MarkTitlesUpdated ==
    /\ pc = "mark"
    /\ titles_table' = UpdateNeedsUpdate(titles_table, title_id)
    /\ flag_writes' = flag_writes \cup { title_id }
    /\ EndIteration("marked")
    /\ UNCHANGED << reviews_table, titles_to_update, max_retries, table0, sessions,
                    upserted_for, last_response >>
    /\ UNCHANGED titleRunVars

\* base.py lines 114-118: the update fails; update_reviews.py line 47 catches it.
MarkTitlesFail ==
    /\ pc = "mark"
    /\ EndIteration("mark_failed")
    /\ UNCHANGED last_response
    /\ UNCHANGED sessionFrame
    /\ UNCHANGED titleRunVars

Next ==
    \/ StartTitle
    \/ FinishRun
    \/ WhileHasNextPage
    \/ ResponsePage
    \/ ResponseNoPageInfo
    \/ ResponseNone
    \/ ResponseRateLimited
    \/ ResponseFatal
    \/ SessionReturn
    \/ ProcessFrame
    \/ UpsertBatchOk
    \/ UpsertBatchFail
    \/ MarkTitlesUpdated
    \/ MarkTitlesFail

Spec == Init /\ [][Next]_vars

-----------------------------------------------------------------------------
(* update_title_table *)

VoteValues == { 0, 1000, 1049, 1050 }

\* Partial tables over the title ids.
PartialFns(S, V) == UNION { [ d -> V ] : d \in SUBSET S }

\* The ids of a frame in ascending order (the row order of the frame).
RECURSIVE IdOrder(_)
IdOrder(S) ==
    IF S = { } THEN << >>
    ELSE LET m == CHOOSE x \in S : \A y \in S : x <= y
         IN  << m >> \o IdOrder(S \ { m })

\* The rows of the catalog frame.
FrameRows(imdb) ==
    [ k \in 1..Len(IdOrder(DOMAIN imdb)) |->
        [ id |-> IdOrder(DOMAIN imdb)[k], num_votes |-> imdb[IdOrder(DOMAIN imdb)[k]] ] ]

\* Lines 35-38: the left join of the catalog with (id, num_votes) of the store.
LeftJoin(rows, supabase) ==
    [ k \in 1..Len(rows) |->
        [ id |-> rows[k].id,
          num_votes |-> rows[k].num_votes,
          num_votes_supabase |->
              IF rows[k].id \in DOMAIN supabase
              THEN supabase[rows[k].id].num_votes ELSE NoRow ] ]

KeepsRowStrict(j) ==
    \/ j.num_votes_supabase = NoRow
    \/ j.num_votes * 100 > j.num_votes_supabase * VOTE_INCREASE_THRESHOLD_PCT

\* Lines 39-41: the id is absent from the store, or the votes grew by 5%.
\* num_votes * 1.05 is a float product; for every count below 2^31 it rounds to
\* the exact value whenever that is an integer, so comparing hundredths is exact.
KeepsRow(j) ==
    \/ j.num_votes_supabase = NoRow
    \/ j.num_votes * 100 >= j.num_votes_supabase * VOTE_INCREASE_THRESHOLD_PCT

RECURSIVE FilterRows(_)
FilterRows(rows) ==
    IF rows = << >> THEN << >>
    ELSE IF KeepsRow(Head(rows)) THEN << Head(rows) >> \o FilterRows(Tail(rows))
    ELSE FilterRows(Tail(rows))

StampedFalse(rows) ==
    [ k \in 1..Len(rows) |->
        [ id |-> rows[k].id, num_votes |-> rows[k].num_votes, needsUpdate |-> FALSE ] ]

\* Lines 42-46: the catalog columns, stamped needsUpdate = True.
Stamped(rows) ==
    [ k \in 1..Len(rows) |->
        [ id |-> rows[k].id, num_votes |-> rows[k].num_votes, needsUpdate |-> TRUE ] ]

\* Lines 32-46: the frame update_title_table hands to upsert_titles.
title_diff(imdb, supabase) ==
    IF Cardinality(DOMAIN supabase) > 0
    THEN Stamped(FilterRows(LeftJoin(FrameRows(imdb), supabase)))
    ELSE Stamped(FrameRows(imdb))

\* Upsert of title rows, keyed on id: the columns of the frame are written, a
\* column the frame does not carry (firstWorld) keeps its value in a row the
\* table holds and is null in a new row.
UpsertTitles(table, rows) ==
    LET ids == { rows[k].id : k \in 1..Len(rows) }
        rowOf(id) == CHOOSE r \in { rows[k] : k \in 1..Len(rows) } : r.id = id
    IN  [ id \in DOMAIN table \cup ids |->
            IF id \notin ids THEN table[id]
            ELSE IF id \in DOMAIN table
            THEN [ table[id] EXCEPT !.num_votes = rowOf(id).num_votes,
                                    !.needsUpdate = rowOf(id).needsUpdate ]
            ELSE [ num_votes |-> rowOf(id).num_votes,
                   needsUpdate |-> rowOf(id).needsUpdate,
                   firstWorld |-> "null" ] ]

\* base.py line 87: the number of store calls upsert_batch makes for the data.
total_batches(data) == (Len(data) + batch_size - 1) \div batch_size

InitTitles ==
    /\ title_df_from_imdb \in PartialFns(TitleIds, VoteValues)
    /\ titles_table \in
         PartialFns(TitleIds, [ num_votes : VoteValues, needsUpdate : BOOLEAN,
                                firstWorld : { "true" } ])
    /\ table0 = titles_table
    /\ sessions = << >>
    /\ rows_selected = << >>
    /\ rows_sent = << >>
    /\ rerun = << >>
    /\ pc = "titles"
    /\ reviews_table = << >>
    /\ titles_to_update = << >>
    /\ idx = 1
    /\ IdleSession
    /\ max_retries = SCRAPER_MAX_RETRIES
    /\ review_df = << >>
    /\ batch_i = 0
    /\ upsert_calls = << >>
    /\ profile = "none"
    /\ status = << >>
    /\ faults = 0
    /\ answers = << >>
    /\ none_run = 0
    /\ nones_since_page = 0
    /\ upserted_for = { }
    /\ flag_writes = { }
    /\ last_response = "no_response"
    /\ rate_limits = 0
    /\ discarded = { }
    /\ IdleCalls

titlesFrame ==
    << reviews_table, title_df_from_imdb, titles_to_update, idx, max_retries,
       review_df, batch_i, upsert_calls, profile, status, faults, answers, none_run,
       nones_since_page, upserted_for, flag_writes, last_response, rate_limits,
       discarded, rerun, sessions, callVars >>

\* update_titles.py lines 14-50 with every store call of upsert_batch succeeding.
update_title_table ==
    /\ pc \in { "titles", "titles_done" }
    /\ table0' = titles_table
    /\ rows_selected' = title_diff(title_df_from_imdb, titles_table)
    /\ rows_sent' = rows_selected'
    /\ titles_table' = UpsertTitles(titles_table, rows_sent')
    /\ pc' = "titles_done"
    /\ UNCHANGED titlesFrame
    /\ UNCHANGED sessionVars

\* The same run with the store failing on call number `ok + 1`: the earlier
\* batches are written, DatabaseOperationError leaves update_title_table.
update_title_table_error ==
    /\ pc \in { "titles", "titles_done" }
    /\ LET rows == title_diff(title_df_from_imdb, titles_table)
       IN  \E ok \in 0..(total_batches(rows) - 1) :
             /\ rows_selected' = rows
             /\ rows_sent' = SubSeq(rows, 1, ok * batch_size)
             /\ titles_table' = UpsertTitles(titles_table, rows_sent')
    /\ table0' = titles_table
    /\ pc' = "titles_failed"
    /\ UNCHANGED titlesFrame
    /\ UNCHANGED sessionVars

NextTitles ==
    \/ update_title_table
    \/ update_title_table_error

SpecTitles == InitTitles /\ [][NextTitles]_vars

-----------------------------------------------------------------------------
(* The filter of get_reviews_from_title_code on arbitrary review lists *)

FilterRatings == { NoRating, 7 }
FilterHelpful == { 0, 1, 2 }
FilterWords == { 99, 100, 150 }

FilterNodes ==
    { Node(1, r, h, w) : r \in FilterRatings, h \in FilterHelpful, w \in FilterWords }

FilterInputs == UNION { [ 1..n -> FilterNodes ] : n \in 0..MaxDfLen }

InitFilter ==
    /\ \E edges \in FilterInputs :
         reviews =
            [ k \in 1..Len(edges) |->
                ReviewData([ edges[k] EXCEPT !.id = k ], format_imdb_id(1)) ]
    /\ has_next_page = FALSE
    /\ cursor = EmptyCursor
    /\ consecutive_failures = 0
    /\ retry_count = 0
    /\ wait_time = 0
    /\ pc = "while"
    /\ titles_table = << >>
    /\ table0 = << >>
    /\ sessions = << >>
    /\ reviews_table = << >>
    /\ titles_to_update = << 1 >>
    /\ idx = 1
    /\ max_retries = SCRAPER_MAX_RETRIES
    /\ review_df = << >>
    /\ batch_i = 0
    /\ upsert_calls = << >>
    /\ profile = "none"
    /\ status = << "pending" >>
    /\ faults = 0
    /\ answers = << >>
    /\ none_run = 0
    /\ nones_since_page = 0
    /\ upserted_for = { }
    /\ flag_writes = { }
    /\ last_response = "no_response"
    /\ rate_limits = 0
    /\ discarded = { }
    /\ IdleCalls
    /\ IdleTitleRun

NextFilter ==
    \/ SessionReturn

SpecFilter == InitFilter /\ [][NextFilter]_vars

-----------------------------------------------------------------------------
(* One fetch session under any max_retries argument, rate limiting only *)

InitBackoff ==
    /\ titles_table =
         [ t \in TitleIds |->
             [ num_votes |-> 1000, needsUpdate |-> TRUE, firstWorld |-> "true" ] ]
    /\ table0 = titles_table
    /\ sessions = << >>
    /\ reviews_table = << >>
    /\ titles_to_update \in { << t >> : t \in TitleIds }
    /\ idx = 1
    /\ pc = "for"
    /\ IdleSession
    /\ max_retries \in 1..MaxRetriesArg
    /\ review_df = << >>
    /\ batch_i = 0
    /\ upsert_calls = << >>
    /\ profile = "none"
    /\ status = << "pending" >>
    /\ faults = 0
    /\ answers = << >>
    /\ none_run = 0
    /\ nones_since_page = 0
    /\ upserted_for = { }
    /\ flag_writes = { }
    /\ last_response = "no_response"
    /\ rate_limits = 0
    /\ discarded = { }
    /\ IdleCalls
    /\ IdleTitleRun

NextBackoff ==
    \/ StartTitle
    \/ WhileHasNextPage
    \/ ResponsePage
    \/ ResponseRateLimited
    \/ SessionReturn

SpecBackoff == InitBackoff /\ [][NextBackoff]_vars

-----------------------------------------------------------------------------
(* Successive runs of update_reviews_table over one title, the source *)
(* answering every run with the same pages                            *)

\* The reviews payloads of a title with n pages, in page order.
RECURSIVE source_reviews(_, _, _)
source_reviews(p, code, n) ==
    IF n = 0 THEN << >>
    ELSE source_reviews(p, code, n - 1)
         \o extract_reviews_from_json(SourcePage(p, code, n - 1, TRUE), code)

\* A row an earlier run persisted when the source still reported one helpful
\* vote less for the review.
StaleRow(r) == [ r EXCEPT !.num_helpful = r.num_helpful - 1 ]

InitRerun ==
    /\ titles_table =
         [ t \in TitleIds |->
             [ num_votes |-> 1000, needsUpdate |-> TRUE, firstWorld |-> "true" ] ]
    /\ table0 = titles_table
    /\ sessions = << >>
    /\ titles_to_update \in { << t >> : t \in TitleIds }
    /\ rerun \in [ profile : Profiles, pages : 1..MaxPages ]
    /\ LET frame == filtered_df(source_reviews(rerun.profile,
                                               format_imdb_id(titles_to_update[1]),
                                               rerun.pages))
       IN  reviews_table \in
             { << >> } \cup { << StaleRow(frame[k]) >> : k \in 1..Len(frame) }
    /\ idx = 1
    /\ pc = "for"
    /\ IdleSession
    /\ max_retries = SCRAPER_MAX_RETRIES
    /\ review_df = << >>
    /\ batch_i = 0
    /\ upsert_calls = << >>
    /\ profile = "none"
    /\ status = << "pending" >>
    /\ faults = 0
    /\ answers = << >>
    /\ none_run = 0
    /\ nones_since_page = 0
    /\ upserted_for = { }
    /\ flag_writes = { }
    /\ last_response = "no_response"
    /\ rate_limits = 0
    /\ discarded = { }
    /\ IdleCalls
    /\ title_df_from_imdb = << >>
    /\ rows_selected = << >>
    /\ rows_sent = << >>

\* The session of the title starts; the source holds what it held before.
RerunStartTitle ==
    /\ StartTitle
    /\ profile' = rerun.profile

\* The source answers the request for a page as in every run.
RerunResponsePage ==
    /\ ResponsePage
    /\ has_next_page' = (cursor' < rerun.pages)

\* update_reviews.py lines 31-36 in the next run: get_titles_needing_update
\* returns the title again as long as its needsUpdate is true. The positions of
\* the new run follow those of the runs before.
RunAgain ==
    /\ pc = "done"
    /\ Len(titles_to_update) < MaxRuns
    /\ titles_table[titles_to_update[1]].needsUpdate
    /\ titles_to_update' = Append(titles_to_update, titles_to_update[1])
    /\ status' = Append(status, "pending")
    /\ pc' = "for"
    /\ UNCHANGED << titles_table, reviews_table, idx, max_retries, review_df, batch_i,
                    upsert_calls, profile, faults, answers, none_run,
                    nones_since_page, table0, sessions, upserted_for, flag_writes,
                    last_response, rate_limits, discarded >>
    /\ UNCHANGED sessionVars
    /\ UNCHANGED titleRunVars

NextRerun ==
    \/ RerunStartTitle
    \/ FinishRun
    \/ WhileHasNextPage
    \/ RerunResponsePage
    \/ SessionReturn
    \/ ProcessFrame
    \/ UpsertBatchOk
    \/ UpsertBatchFail
    \/ MarkTitlesUpdated
    \/ MarkTitlesFail
    \/ RunAgain

SpecRerun == InitRerun /\ [][NextRerun]_vars

-----------------------------------------------------------------------------
(* SpecBatch: upsert_batch on review frames of every length up to MaxRecords *)

\* Review frames of n rows with distinct review ids, as the filter lets through.
BatchFrames(n) ==
    { [ k \in 1..n |->
          ReviewData(Node(100 + k, ratings[k], 2, 100), format_imdb_id(1)) ] :
      ratings \in [ 1..n -> { 7, 8 } ] }

InitBatch ==
    /\ titles_table =
         [ t \in TitleIds |->
             [ num_votes |-> 1000, needsUpdate |-> TRUE, firstWorld |-> "true" ] ]
    /\ table0 = titles_table
    /\ sessions = << >>
    /\ reviews_table = << >>
    /\ titles_to_update = << 1 >>
    /\ idx = 1
    /\ pc = "returned"
    /\ IdleSession
    /\ max_retries = SCRAPER_MAX_RETRIES
    /\ review_df \in UNION { BatchFrames(n) : n \in 0..MaxRecords }
    /\ batch_i = 0
    /\ upsert_calls = << >>
    /\ profile = "none"
    /\ status = << "pending" >>
    /\ faults = 0
    /\ answers = << >>
    /\ none_run = 0
    /\ nones_since_page = 0
    /\ upserted_for = { }
    /\ flag_writes = { }
    /\ last_response = "no_response"
    /\ rate_limits = 0
    /\ discarded = { }
    /\ IdleCalls
    /\ IdleTitleRun

NextBatch ==
    \/ ProcessFrame
    \/ UpsertBatchOk
    \/ UpsertBatchFail
    \/ MarkTitlesUpdated
    \/ MarkTitlesFail
    \/ FinishRun

SpecBatch == InitBatch /\ [][NextBatch]_vars

-----------------------------------------------------------------------------
(* SpecWorklist: update_reviews_table called without a list of titles *)

FirstWorldValues == { "true", "false", "null" }

needs_update_only(table) ==
    { t \in DOMAIN table : table[t].needsUpdate }

\* title_repository.py lines 25-44: the ids of the rows that pass
\* pl.col("needsUpdate") & pl.col("firstWorld"); a null firstWorld makes the
\* conjunction null or false, and filter keeps only rows where it is true.
get_titles_needing_update(table) ==
    { t \in DOMAIN table : table[t].needsUpdate /\ table[t].firstWorld = "true" }

InitWorklist ==
    /\ titles_table \in
         [ TitleIds -> [ num_votes : { 1000 }, needsUpdate : BOOLEAN,
                         firstWorld : FirstWorldValues ] ]
    /\ table0 = titles_table
    /\ sessions = << >>
    /\ reviews_table = << >>
    /\ titles_to_update = << >>
    /\ idx = 1
    /\ pc = "titles_done"
    /\ IdleSession
    /\ max_retries = SCRAPER_MAX_RETRIES
    /\ review_df = << >>
    /\ batch_i = 0
    /\ upsert_calls = << >>
    /\ profile = "none"
    /\ status = << >>
    /\ faults = 0
    /\ answers = << >>
    /\ none_run = 0
    /\ nones_since_page = 0
    /\ upserted_for = { }
    /\ flag_writes = { }
    /\ last_response = "no_response"
    /\ rate_limits = 0
    /\ discarded = { }
    /\ IdleCalls
    /\ IdleTitleRun

\* update_reviews.py lines 31-36: no list was passed, the repository is asked
\* for the titles to process; the rows come in the order the store returns them.
DefaultWorkList ==
    /\ pc = "titles_done"
    /\ \E list \in DistinctSeqs(get_titles_needing_update(titles_table)) :
         /\ SeqSet(list) = get_titles_needing_update(titles_table)
         /\ titles_to_update' = list
         /\ status' = [ k \in 1..Len(list) |-> "pending" ]
    /\ idx' = 1
    /\ pc' = "for"
    /\ UNCHANGED << titles_table, reviews_table, max_retries, review_df, batch_i,
                    upsert_calls, profile, faults, answers, none_run, nones_since_page,
                    table0, sessions, upserted_for, flag_writes, last_response,
                    rate_limits, discarded >>
    /\ UNCHANGED sessionVars
    /\ UNCHANGED titleRunVars

NextWorklist ==
    \/ DefaultWorkList
    \/ Next

SpecWorklist == InitWorklist /\ [][NextWorklist]_vars

-----------------------------------------------------------------------------
(* SpecScenario: update_title_table, then update_reviews_table, on the one   *)
(* title 100 whose source holds a single page of two reviews                 *)

ScenarioIds == { 100 }
ScenarioVotes == { 1000, 1049, 1050, 2000 }

InitScenario ==
    /\ title_df_from_imdb \in [ ScenarioIds -> ScenarioVotes ]
    /\ titles_table \in
         PartialFns(ScenarioIds, [ num_votes : { 1000 }, needsUpdate : BOOLEAN,
                                   firstWorld : FirstWorldValues ])
    /\ table0 = titles_table
    /\ sessions = << >>
    /\ rows_selected = << >>
    /\ rows_sent = << >>
    /\ rerun = << >>
    /\ pc = "titles"
    /\ reviews_table = << >>
    /\ titles_to_update = << >>
    /\ idx = 1
    /\ IdleSession
    /\ max_retries = SCRAPER_MAX_RETRIES
    /\ review_df = << >>
    /\ batch_i = 0
    /\ upsert_calls = << >>
    /\ profile = "none"
    /\ status = << >>
    /\ faults = 0
    /\ answers = << >>
    /\ none_run = 0
    /\ nones_since_page = 0
    /\ upserted_for = { }
    /\ flag_writes = { }
    /\ last_response = "no_response"
    /\ rate_limits = 0
    /\ discarded = { }
    /\ IdleCalls

\* The session of the title starts; its source holds pages of two reviews, one
\* of which the filter lets through.
ScenarioStartTitle ==
    /\ StartTitle
    /\ profile' = "mixed"

\* The source answers with its only page.
ScenarioResponsePage ==
    /\ ResponsePage
    /\ ~has_next_page'

NextScenario ==
    \/ update_title_table
    \/ DefaultWorkList
    \/ ScenarioStartTitle
    \/ WhileHasNextPage
    \/ ScenarioResponsePage
    \/ SessionReturn
    \/ ProcessFrame
    \/ UpsertBatchOk
    \/ MarkTitlesUpdated
    \/ FinishRun

SpecScenario == InitScenario /\ [][NextScenario]_vars

-----------------------------------------------------------------------------
(* SpecCodes: the places that format a title id, and the parse of the code *)

\* Small ids, and ids around the width of the padding.
CodeIds == 0..MaxCodeId \cup { 999999, 1000000, 9999999, 10000000 }

\* update_first_world.py lines 76-88: its own format_imdb_id,
\* "tt" + str(title_id).zfill(8).
first_world_format_imdb_id(id) ==
    IMDB_TITLE_ID_PREFIX \o ZeroPad(Digits(id), FIRST_WORLD_ZFILL)

InitCodes ==
    /\ titles_to_update \in { << id >> : id \in CodeIds }
    /\ titles_table = << >>
    /\ table0 = titles_table
    /\ sessions = << >>
    /\ reviews_table = << >>
    /\ idx = 1
    /\ pc = "codes"
    /\ IdleSession
    /\ max_retries = SCRAPER_MAX_RETRIES
    /\ review_df = << >>
    /\ batch_i = 0
    /\ upsert_calls = << >>
    /\ profile = "none"
    /\ status = << "pending" >>
    /\ faults = 0
    /\ answers = << >>
    /\ none_run = 0
    /\ nones_since_page = 0
    /\ upserted_for = { }
    /\ flag_writes = { }
    /\ last_response = "no_response"
    /\ rate_limits = 0
    /\ discarded = { }
    /\ IdleCalls
    /\ IdleTitleRun

codesFrame ==
    << titles_table, reviews_table, title_df_from_imdb, titles_to_update, idx,
       has_next_page, cursor, consecutive_failures, retry_count, max_retries,
       review_df, batch_i, upsert_calls, profile, status, faults, answers, none_run,
       nones_since_page, table0, sessions, upserted_for, flag_writes, rows_selected,
       rows_sent, wait_time, last_response, rate_limits, discarded, rerun, manager,
       threads, response, outcome, fetch >>

\* update_reviews.py line 37: title_code = format_imdb_id(title_id), from utils.
FormatTitleCode ==
    /\ pc = "codes"
    /\ imdb_id' = format_imdb_id(title_id)
    /\ pc' = "title_code"
    /\ UNCHANGED reviews
    /\ UNCHANGED codesFrame

\* update_first_world.py line 151: imdb_id = format_imdb_id(title_id), its own.
FormatImdbId ==
    /\ pc = "codes"
    /\ imdb_id' = first_world_format_imdb_id(title_id)
    /\ pc' = "imdb_id"
    /\ UNCHANGED reviews
    /\ UNCHANGED codesFrame

\* scrape_reviews.py lines 195-201: the reviews of a page get the title id
\* parsed from the code, int(title_code[len(IMDB_TITLE_ID_PREFIX):]).
ParseTitleCode ==
    /\ pc \in { "title_code", "imdb_id" }
    /\ reviews' = extract_reviews_from_json(SourcePage("weak", imdb_id, 0, FALSE), imdb_id)
    /\ pc' = "parsed"
    /\ UNCHANGED imdb_id
    /\ UNCHANGED codesFrame

NextCodes ==
    \/ FormatTitleCode
    \/ FormatImdbId
    \/ ParseTitleCode

SpecCodes == InitCodes /\ [][NextCodes]_vars

-----------------------------------------------------------------------------
(* SpecClient: threads calling DatabaseConnectionManager.get_client *)

clientFrame ==
    << titles_table, reviews_table, title_df_from_imdb, titles_to_update, idx, pc,
       has_next_page, cursor, reviews, consecutive_failures, retry_count, max_retries,
       review_df, batch_i, upsert_calls, profile, status, faults, answers, none_run,
       nones_since_page, table0, sessions, upserted_for, flag_writes, rows_selected,
       rows_sent, wait_time, last_response, rate_limits, discarded, rerun, imdb_id,
       response, outcome, fetch >>

InitClient ==
    /\ titles_table = << >>
    /\ table0 = titles_table
    /\ sessions = << >>
    /\ reviews_table = << >>
    /\ titles_to_update = << >>
    /\ idx = 1
    /\ pc = "clients"
    /\ IdleSession
    /\ max_retries = SCRAPER_MAX_RETRIES
    /\ review_df = << >>
    /\ batch_i = 0
    /\ upsert_calls = << >>
    /\ profile = "none"
    /\ status = << >>
    /\ faults = 0
    /\ answers = << >>
    /\ none_run = 0
    /\ nones_since_page = 0
    /\ upserted_for = { }
    /\ flag_writes = { }
    /\ last_response = "no_response"
    /\ rate_limits = 0
    /\ discarded = { }
    /\ IdleCalls
    /\ IdleTitleRun

\* The thread is at `at`, the others stay where they are.
Goto(t, at) == [ threads EXCEPT ![t].pc = at ]

\* A thread calls get_client.
GetClient(t) ==
    /\ threads[t].pc = "idle"
    /\ threads[t].calls < MaxCalls
    /\ threads' = [ threads EXCEPT ![t].pc = "line68", ![t].calls = @ + 1 ]
    /\ UNCHANGED manager
    /\ UNCHANGED clientFrame

\* Line 68: the unlocked test of _client.
CheckClient(t) ==
    /\ threads[t].pc = "line68"
    /\ threads' = Goto(t, IF manager._client = NoClient THEN "line69" ELSE "line75")
    /\ UNCHANGED manager
    /\ UNCHANGED clientFrame

\* Lines 69-70: the lock is taken and _client tested again; a thread that finds
\* a client leaves the with block at once.
LockForCreate(t) ==
    /\ threads[t].pc = "line69"
    /\ manager._lock = NoThread
    /\ IF manager._client = NoClient
       THEN /\ manager' = [ manager EXCEPT !._lock = t ]
            /\ threads' = [ threads EXCEPT ![t].pc = "line71", ![t].attempt = 0,
                                           ![t].slept = << >> ]
       ELSE /\ threads' = Goto(t, "line75")
            /\ UNCHANGED manager
    /\ UNCHANGED clientFrame

constant_delay(attempt) == DB_RETRY_DELAY

\* Line 108: delay = self._retry_delay * (2 ** attempt), in seconds.
backoff_delay(attempt) == DB_RETRY_DELAY * 2 ^ attempt

\* Lines 87-110, called from line 71 or line 80 with the lock held: one pass of
\* the loop of _create_client_with_retry. create_client raises, or it makes a
\* client whose connection test raises, or the client passes the test and is
\* returned and assigned to _client. A failed attempt that is not the last one
\* sleeps before the next; the last one leaves the loop for line 112.
CreateAttempt(t) ==
    /\ threads[t].pc \in { "line71", "line80" }
    /\ \E result \in { "ok", "create_raises", "test_raises" } :
         LET made == IF result = "create_raises" THEN 0 ELSE 1
             attempt == threads[t].attempt
         IN  IF result = "ok"
             THEN /\ manager' = [ manager EXCEPT !.created = @ + 1,
                                                 !._client = manager.created + 1,
                                                 !._lock = NoThread ]
                  /\ threads' = [ threads EXCEPT
                                    ![t].pc = IF @ = "line71" THEN "line75" ELSE "line81",
                                    ![t].attempt = 0,
                                    ![t].slept = << >> ]
             ELSE IF attempt < DB_MAX_RETRIES - 1
             THEN /\ manager' = [ manager EXCEPT !.created = @ + made ]
                  /\ threads' = [ threads EXCEPT
                                    ![t].attempt = @ + 1,
                                    ![t].slept = Append(@, backoff_delay(attempt)) ]
             ELSE /\ manager' = [ manager EXCEPT !.created = @ + made ]
                  /\ threads' = [ threads EXCEPT ![t].pc = "line114",
                                                 ![t].attempt = @ + 1 ]
    /\ UNCHANGED clientFrame

\* Lines 112-114: every attempt has failed, DatabaseConnectionError leaves
\* _create_client_with_retry and get_client; the with block releases the lock.
RaiseConnectionError(t) ==
    /\ threads[t].pc = "line114"
    /\ manager' = [ manager EXCEPT !._lock = NoThread ]
    /\ threads' = [ threads EXCEPT ![t].pc = "idle", ![t].attempt = 0,
                                   ![t].slept = << >> ]
    /\ UNCHANGED clientFrame

\* Lines 73-76 and 122-127: _verify_connection raises when _client is None or
\* when the test query of the client fails.
VerifyConnection(t) ==
    /\ threads[t].pc = "line75"
    /\ \E test_ok \in BOOLEAN :
         threads' = Goto(t, IF manager._client # NoClient /\ test_ok
                            THEN "line81" ELSE "line78")
    /\ UNCHANGED manager
    /\ UNCHANGED clientFrame

\* Lines 78-79: the handler takes the lock and drops the client.
LockForReconnect(t) ==
    /\ threads[t].pc = "line78"
    /\ manager._lock = NoThread
    /\ manager' = [ manager EXCEPT !._lock = t, !._client = NoClient ]
    /\ threads' = [ threads EXCEPT ![t].pc = "line80", ![t].attempt = 0,
                                   ![t].slept = << >> ]
    /\ UNCHANGED clientFrame

\* Line 81: return self._client, read without the lock.
ReturnClient(t) ==
    /\ threads[t].pc = "line81"
    /\ manager' = [ manager EXCEPT !.returned = @ \cup { manager._client } ]
    /\ threads' = Goto(t, "idle")
    /\ UNCHANGED clientFrame

\* A thread calls close.
CloseCall(t) ==
    /\ threads[t].pc = "idle"
    /\ threads[t].calls < MaxCalls
    /\ threads' = [ threads EXCEPT ![t].pc = "line137", ![t].calls = @ + 1 ]
    /\ UNCHANGED manager
    /\ UNCHANGED clientFrame

\* Line 137: the unlocked test of _client; with no client close returns.
CloseCheck(t) ==
    /\ threads[t].pc = "line137"
    /\ threads' = Goto(t, IF manager._client # NoClient THEN "line138" ELSE "idle")
    /\ UNCHANGED manager
    /\ UNCHANGED clientFrame

\* Lines 138-145: with the lock held _client is set to None; close returns.
CloseLocked(t) ==
    /\ threads[t].pc = "line138"
    /\ manager._lock = NoThread
    /\ manager' = [ manager EXCEPT !._client = NoClient ]
    /\ threads' = Goto(t, "idle")
    /\ UNCHANGED clientFrame

NextClient ==
    \E t \in Threads :
        \/ GetClient(t)
        \/ CheckClient(t)
        \/ LockForCreate(t)
        \/ CreateAttempt(t)
        \/ RaiseConnectionError(t)
        \/ VerifyConnection(t)
        \/ LockForReconnect(t)
        \/ ReturnClient(t)
        \/ CloseCall(t)
        \/ CloseCheck(t)
        \/ CloseLocked(t)

SpecClient == InitClient /\ [][NextClient]_vars

-----------------------------------------------------------------------------
(* SpecClassify: get_json_reviews on one response of the transport *)

\* JSON values, as far as get_json_reviews looks into them.
NotJson == [ type |-> "invalid" ]
JNull == [ type |-> "null" ]
JNumber == [ type |-> "number" ]
JArray(items) == [ type |-> "array", items |-> items ]
JObject(members) == [ type |-> "object", members |-> members ]
NoMembers == [ key \in { } |-> JNull ]

\* A body whose data.title.reviews member is `payload`.
ReviewsBody(payload) ==
    JObject([ data |-> JObject([ title |-> JObject([ reviews |-> payload ]) ]) ])

ReviewsPayload ==
    JObject([ edges |-> JArray(<< >>), pageInfo |-> JObject(NoMembers) ])

Bodies ==
    { NotJson, JNull, JNumber, JArray(<< >>), JObject(NoMembers),
      JObject([ errors |-> JArray(<< JObject([ message |-> JNumber ]) >>) ]),
      JObject([ errors |-> JArray(<< >>) ]),
      JObject([ errors |-> JNull ]),
      JObject([ data |-> JNull ]),
      JObject([ data |-> JArray(<< >>) ]),
      JObject([ data |-> JObject(NoMembers) ]),
      JObject([ data |-> JObject([ title |-> JNull ]) ]),
      JObject([ data |-> JObject([ title |-> JObject(NoMembers) ]) ]),
      ReviewsBody(JNull),
      ReviewsBody(ReviewsPayload) }

StatusCodes == { 200, 400, 404, 429, 500, 503 }

\* What session.get ends with: a response, or an exception of requests.
Responses ==
    [ transport : { "response" }, status_code : StatusCodes, body : Bodies ]
    \cup [ transport : { "Timeout", "ConnectionError", "RequestException" },
           status_code : { 0 }, body : { NotJson } ]

\* Python's `key in value` and value[key] for a string key: a dict has its
\* keys, a list holds no such item and cannot be indexed by it, None and
\* numbers support neither.
HasKey(value, key) == value.type = "object" /\ key \in DOMAIN value.members
IsContainer(value) == value.type \in { "object", "array" }

\* Lines 134-136: json_data["errors"][0].get("message", ...), then the raise.
errors_outcome(errors) ==
    CASE errors.type = "array" /\ Len(errors.items) = 0 -> "IndexError"
      [] errors.type = "array" /\ errors.items[1].type = "object" -> "DataValidationError"
      [] errors.type = "array" -> "AttributeError"
      [] errors.type = "object" -> "KeyError"
      [] OTHER -> "TypeError"

\* Lines 141-146: json_data["data"]["title"]["reviews"], KeyError and TypeError
\* turned into DataValidationError; a null reviews member is returned as None.
reviews_outcome(json_data) ==
    LET data == json_data.members.data
    IN  IF ~HasKey(data, "title") THEN "DataValidationError"
        ELSE IF ~HasKey(data.members.title, "reviews") THEN "DataValidationError"
        ELSE IF data.members.title.members.reviews.type = "null" THEN "None"
        ELSE "page"

\* Lines 126-146: the body of a response that passed raise_for_status.
body_outcome(json_data) ==
    IF json_data.type = "invalid" THEN "DataValidationError"
    ELSE IF ~IsContainer(json_data) THEN "TypeError"
    ELSE IF ~HasKey(json_data, "data")
    THEN IF HasKey(json_data, "errors")
         THEN errors_outcome(json_data.members.errors)
         ELSE "DataValidationError"
    ELSE reviews_outcome(json_data)

\* Lines 112-163: how the call ends for what the transport got.
get_json_reviews(r) ==
    IF r.transport # "response" THEN "NetworkError"
    ELSE IF r.status_code = HTTP_STATUS_RATE_LIMITED THEN "RateLimitError"
    ELSE IF r.status_code >= 500 THEN "None"
    ELSE IF r.status_code >= 400 THEN "NetworkError"
    ELSE body_outcome(r.body)

classifyFrame ==
    << titles_table, reviews_table, title_df_from_imdb, titles_to_update, idx,
       has_next_page, cursor, reviews, consecutive_failures, retry_count, max_retries,
       review_df, batch_i, upsert_calls, profile, status, faults, answers, none_run,
       nones_since_page, table0, sessions, upserted_for, flag_writes, rows_selected,
       rows_sent, wait_time, last_response, rate_limits, discarded, rerun, imdb_id,
       manager, threads, fetch >>

InitClassify ==
    /\ titles_table = << >>
    /\ table0 = titles_table
    /\ sessions = << >>
    /\ reviews_table = << >>
    /\ titles_to_update = << >>
    /\ idx = 1
    /\ pc = "get_json_reviews"
    /\ IdleSession
    /\ max_retries = SCRAPER_MAX_RETRIES
    /\ review_df = << >>
    /\ batch_i = 0
    /\ upsert_calls = << >>
    /\ profile = "none"
    /\ status = << >>
    /\ faults = 0
    /\ answers = << >>
    /\ none_run = 0
    /\ nones_since_page = 0
    /\ upserted_for = { }
    /\ flag_writes = { }
    /\ last_response = "no_response"
    /\ rate_limits = 0
    /\ discarded = { }
    /\ imdb_id = << >>
    /\ manager = [ _client |-> NoClient, _lock |-> NoThread, created |-> 0,
                   returned |-> { } ]
    /\ threads = [ t \in Threads |-> [ pc |-> "idle", calls |-> 0, attempt |-> 0,
                                     slept |-> << >> ] ]
    /\ response \in Responses
    /\ outcome = "no_call"
    /\ fetch = IdleFetch
    /\ IdleTitleRun

\* The call returns or raises.
GetJsonReviews ==
    /\ pc = "get_json_reviews"
    /\ outcome' = get_json_reviews(response)
    /\ pc' = "classified"
    /\ UNCHANGED response
    /\ UNCHANGED classifyFrame

NextClassify ==
    \/ GetJsonReviews

SpecClassify == InitClassify /\ [][NextClassify]_vars

-----------------------------------------------------------------------------
(* SpecSession: one call of get_reviews_from_title_code, run to its end *)

\* The call of update_reviews.py line 40 with any max_retries argument the
\* signature of scrape_reviews.py line 222 admits, 0 included.
InitSession ==
    /\ titles_table =
         [ t \in TitleIds |->
             [ num_votes |-> 1000, needsUpdate |-> TRUE, firstWorld |-> "true" ] ]
    /\ table0 = titles_table
    /\ sessions = << >>
    /\ reviews_table = << >>
    /\ titles_to_update = << 1 >>
    /\ idx = 1
    /\ pc = "for"
    /\ IdleSession
    /\ max_retries \in 0..MaxSessionRetries
    /\ review_df = << >>
    /\ batch_i = 0
    /\ upsert_calls = << >>
    /\ profile = "none"
    /\ status = << "pending" >>
    /\ faults = 0
    /\ answers = << >>
    /\ none_run = 0
    /\ nones_since_page = 0
    /\ upserted_for = { }
    /\ flag_writes = { }
    /\ last_response = "no_response"
    /\ rate_limits = 0
    /\ discarded = { }
    /\ IdleCalls
    /\ IdleTitleRun

NextSession ==
    \/ StartTitle
    \/ WhileHasNextPage
    \/ ResponsePage
    \/ ResponseNoPageInfo
    \/ ResponseNone
    \/ ResponseRateLimited
    \/ ResponseFatal
    \/ SessionReturn

\* The interpreter runs the loops of lines 251-291 on, and every request of line
\* 255 is answered (requests_session.post returns or raises, sleeps end): a
\* step that can change the state is eventually taken.
SpecSession == InitSession /\ [][NextSession]_vars /\ WF_vars(NextSession)

-----------------------------------------------------------------------------
(* SpecGrowth: update_title_table run after run on a slowly growing catalog *)

GrowthValues == { 1000, 1020, 1040, 1049, 1050, 1060, 1090, 1101, 1102, 1103, 1113 }

\* A count that has grown by less than 5% since the download before.
GrowsSlowly(before, after) ==
    /\ before <= after
    /\ after * 100 < before * VOTE_INCREASE_THRESHOLD_PCT

\* The catalogs download_titles_from_imdb can return one run after `imdb`:
\* title 1 is listed in every download, title 2 may be dropped from the
\* catalog and is not listed again.
NextCatalogs(imdb) ==
    { g \in PartialFns(TitleIds, GrowthValues) :
        /\ 1 \in DOMAIN g
        /\ DOMAIN g \subseteq DOMAIN imdb
        /\ \A t \in DOMAIN g : GrowsSlowly(imdb[t], g[t]) }

\* The store after a run that upserted every listed title with the counts of
\* that catalog; the flags may have been cleared by the review update since.
InitGrowth ==
    /\ title_df_from_imdb \in PartialFns(TitleIds, { 1000 })
    /\ 1 \in DOMAIN title_df_from_imdb
    /\ titles_table \in
         [ TitleIds -> [ num_votes : { 1000 }, needsUpdate : BOOLEAN,
                         firstWorld : { "true" } ] ]
    /\ table0 = titles_table
    /\ sessions = << >>
    /\ rows_selected = << >>
    /\ rows_sent = << >>
    /\ rerun = << >>
    /\ pc = "titles"
    /\ reviews_table = << >>
    /\ titles_to_update = << >>
    /\ idx = 1
    /\ IdleSession
    /\ max_retries = SCRAPER_MAX_RETRIES
    /\ review_df = << >>
    /\ batch_i = 0
    /\ upsert_calls = << >>
    /\ profile = "none"
    /\ status = << >>
    /\ faults = 0
    /\ answers = << >>
    /\ none_run = 0
    /\ nones_since_page = 0
    /\ upserted_for = { }
    /\ flag_writes = { }
    /\ last_response = "no_response"
    /\ rate_limits = 0
    /\ discarded = { }
    /\ IdleCalls

growthFrame ==
    << reviews_table, titles_to_update, idx, max_retries, review_df, batch_i,
       upsert_calls, profile, status, faults, answers, none_run, nones_since_page,
       upserted_for, flag_writes, last_response, rate_limits, discarded, rerun,
       sessions, callVars >>

update_title_table_refreshing ==
    /\ pc \in { "titles", "titles_done" }
    /\ \E g \in NextCatalogs(title_df_from_imdb) : title_df_from_imdb' = g
    /\ table0' = titles_table
    /\ rows_selected' = title_diff(title_df_from_imdb', titles_table)
    /\ rows_sent' = rows_selected'
    /\ titles_table' =
         [ t \in DOMAIN titles_table |->
             IF t \in DOMAIN title_df_from_imdb'
             THEN [ UpsertTitles(titles_table, rows_sent')[t]
                      EXCEPT !.num_votes = title_df_from_imdb'[t] ]
             ELSE titles_table[t] ]
    /\ pc' = "titles_done"
    /\ UNCHANGED growthFrame
    /\ UNCHANGED sessionVars

\* update_titles.py lines 23-48: one run, from the download of the catalog to
\* the upsert of the selected rows, every store call succeeding.
update_title_table_downloading ==
    /\ pc \in { "titles", "titles_done" }
    /\ \E g \in NextCatalogs(title_df_from_imdb) : title_df_from_imdb' = g
    /\ table0' = titles_table
    /\ rows_selected' = title_diff(title_df_from_imdb', titles_table)
    /\ rows_sent' = rows_selected'
    /\ titles_table' = UpsertTitles(titles_table, rows_sent')
    /\ pc' = "titles_done"
    /\ UNCHANGED growthFrame
    /\ UNCHANGED sessionVars

NextGrowth == update_title_table_downloading

SpecGrowth == InitGrowth /\ [][NextGrowth]_vars

-----------------------------------------------------------------------------
(* SpecFetch: BaseRepository.fetch_all on tables of every length up to MaxRecords *)

\* The column lists fetch_all is called with: its default (title_repository.py
\* line 22) and the one of get_titles_needing_update (line 33).
ColumnLists == { "*", "id, needsUpdate, firstWorld" }

\* The tables of n title rows, ids 1..n in the order the store reads them.
FetchTables(n) ==
    { [ k \in 1..n |->
          [ id |-> k, num_votes |-> 1000, needsUpdate |-> flags[k],
            firstWorld |-> "true" ] ] :
      flags \in [ 1..n -> BOOLEAN ] }

\* .select(columns): the row with the columns asked for.
select(row, columns) ==
    IF columns = "*" THEN row
    ELSE [ id |-> row.id, needsUpdate |-> row.needsUpdate,
           firstWorld |-> row.firstWorld ]

\* Lines 50-57: .data of select(columns).offset(offset).limit(limit) on a table
\* that is not written meanwhile and that the store reads in the same row order
\* for every request: at most `limit` rows from row offset + 1 on.
select_page(table, columns, offset, limit) ==
    [ k \in 1..Min(limit, IF offset < Len(table) THEN Len(table) - offset ELSE 0) |->
        select(table[offset + k], columns) ]

last_page_when_empty(batch_data) == Len(batch_data) = 0

\* Line 64: the page is shorter than the batch size.
last_page(batch_data) == Len(batch_data) < batch_size

fetchFrame ==
    << titles_table, reviews_table, title_df_from_imdb, titles_to_update, idx, pc,
       has_next_page, cursor, reviews, consecutive_failures, retry_count, max_retries,
       review_df, batch_i, upsert_calls, profile, status, faults, answers, none_run,
       nones_since_page, table0, sessions, upserted_for, flag_writes, rows_selected,
       rows_sent, wait_time, last_response, rate_limits, discarded, rerun, imdb_id,
       manager, threads, response, outcome >>

\* Lines 43-46: all_data = [], offset = 0, the loop is about to start.
InitFetch ==
    /\ titles_table = << >>
    /\ table0 = << >>
    /\ sessions = << >>
    /\ reviews_table = << >>
    /\ titles_to_update = << >>
    /\ idx = 1
    /\ pc = "fetch_all"
    /\ IdleSession
    /\ max_retries = SCRAPER_MAX_RETRIES
    /\ review_df = << >>
    /\ batch_i = 0
    /\ upsert_calls = << >>
    /\ profile = "none"
    /\ status = << >>
    /\ faults = 0
    /\ answers = << >>
    /\ none_run = 0
    /\ nones_since_page = 0
    /\ upserted_for = { }
    /\ flag_writes = { }
    /\ last_response = "no_response"
    /\ rate_limits = 0
    /\ discarded = { }
    /\ imdb_id = << >>
    /\ manager = [ _client |-> NoClient, _lock |-> NoThread, created |-> 0,
                   returned |-> { } ]
    /\ threads = [ t \in Threads |-> [ pc |-> "idle", calls |-> 0, attempt |-> 0,
                                     slept |-> << >> ] ]
    /\ response = << >>
    /\ outcome = "no_call"
    /\ \E n \in 0..MaxRecords : \E table \in FetchTables(n) : \E columns \in ColumnLists :
         fetch = [ pc |-> "while", table |-> table, columns |-> columns, offset |-> 0,
                   all_data |-> << >>, requests |-> << >> ]
    /\ IdleTitleRun

\* Lines 48-65: one pass of the loop whose request the store answers.
FetchPage ==
    /\ pc = "fetch_all"
    /\ fetch.pc = "while"
    /\ LET batch_data == select_page(fetch.table, fetch.columns, fetch.offset, batch_size)
       IN  fetch' = [ fetch EXCEPT
                        !.all_data = fetch.all_data \o batch_data,
                        !.offset = fetch.offset + batch_size,
                        !.requests = Append(fetch.requests,
                                            [ offset |-> fetch.offset,
                                              limit |-> batch_size,
                                              rows |-> Len(batch_data) ]),
                        !.pc = IF last_page(batch_data) THEN "returned" ELSE "while" ]
    /\ UNCHANGED fetchFrame

\* Lines 66-68: the request raises, fetch_all raises DatabaseOperationError.
FetchPageFail ==
    /\ pc = "fetch_all"
    /\ fetch.pc = "while"
    /\ fetch' = [ fetch EXCEPT
                    !.requests = Append(fetch.requests,
                                        [ offset |-> fetch.offset, limit |-> batch_size,
                                          rows |-> NoRow ]),
                    !.pc = "raised" ]
    /\ UNCHANGED fetchFrame

NextFetch ==
    \/ FetchPage
    \/ FetchPageFail

SpecFetch == InitFetch /\ [][NextFetch]_vars

-----------------------------------------------------------------------------
(* Properties *)

Positions == 1..Len(titles_to_update)

InSession == pc \in { "while", "request" }
AfterSession == pc \in { "returned", "upsert", "mark" }

InSeq(x, seq) == \E k \in 1..Len(seq) : seq[k] = x
\* The reviews of the first n pages of the current title, in page order.
RECURSIVE PagesUpTo(_)
PagesUpTo(n) ==
    IF n = 0 THEN << >>
    ELSE PagesUpTo(n - 1)
         \o extract_reviews_from_json(SourcePage(profile, title_code, n - 1, TRUE),
                                      title_code)

\* C1: every title whose fetch session ended without raising has needsUpdate =
\* false once its iteration is over, also when the session produced no review
\* or no review passed the filter (the iteration ended marked, or with the
\* empty frame).
C1_FlagClearedAfterFetch ==
    \A k \in Positions :
        status[k] \in { "empty", "marked" }
            => titles_table[titles_to_update[k]].needsUpdate = FALSE

\* C2: a title whose fetch session raised leaves the loop going: the loop has
\* moved past it, and when the run is over every title of the list has been
\* attempted and the whole list has been walked.
C2_FailureIsolation ==
    /\ \A k \in Positions : status[k] = "fetch_raised" => idx > k
    /\ pc = "done" =>
         /\ idx = Len(titles_to_update) + 1
         /\ \A k \in Positions : status[k] # "pending"

C2_Witness ==
    /\ pc = "done"
    /\ Len(titles_to_update) = 2
    /\ status[1] = "fetch_raised"
    /\ status[2] = "marked"

\* C3: for a title whose fetch session raised, the run has written neither its
\* needsUpdate flag nor any review of it: the flag has the value it had when
\* the run started and the review store holds no row of the title.
C3_RaisedTitleUntouched ==
    \A k \in Positions :
        status[k] = "fetch_raised" =>
            LET t == titles_to_update[k]
            IN  /\ t \notin flag_writes
                /\ t \notin upserted_for
                /\ titles_table[t].needsUpdate = table0[t].needsUpdate
                /\ \A r \in SeqSet(reviews_table) : r.title_id # t

C3_Witness ==
    /\ pc = "done"
    /\ Len(titles_to_update) = 2
    /\ status[2] = "fetch_raised"
    /\ table0[titles_to_update[2]].needsUpdate = TRUE
    /\ titles_table[titles_to_update[2]].needsUpdate = TRUE
    /\ status[1] = "marked"

\* C4: a store failure during the upsert of a title's reviews aborts the run:
\* no later title is processed and the run does not end normally.
C4_StoreFailureAborts ==
    \A k \in Positions :
        status[k] = "upsert_failed" =>
            /\ pc # "done"
            /\ \A j \in Positions : j > k => status[j] = "pending"
            /\ ~(idx > k /\ (InSession \/ AfterSession))

\* C5: with a non-empty persisted snapshot, a completed update_title_table has
\* upserted exactly the catalog rows whose id the snapshot lacks or whose votes
\* are at least 1.05 times the persisted votes (1000 persisted: 1049 is left
\* out, 1050 is taken), each with needsUpdate = true and each once.
C5_TitleDiffRule ==
    (pc = "titles_done" /\ DOMAIN table0 # { }) =>
        /\ SeqSet(rows_sent) =
             { [ id |-> t, num_votes |-> title_df_from_imdb[t], needsUpdate |-> TRUE ] :
                 t \in { u \in DOMAIN title_df_from_imdb :
                           \/ u \notin DOMAIN table0
                           \/ 20 * title_df_from_imdb[u] >= 21 * table0[u].num_votes } }
        /\ Len(rows_sent) = Cardinality(SeqSet(rows_sent))
        /\ \A t \in DOMAIN title_df_from_imdb \cap DOMAIN table0 :
             table0[t].num_votes = 1000 =>
                 /\ title_df_from_imdb[t] = 1049 =>
                      \A k \in 1..Len(rows_sent) : rows_sent[k].id # t
                 /\ title_df_from_imdb[t] = 1050 =>
                      \E k \in 1..Len(rows_sent) : rows_sent[k].id = t

C5_Witness ==
    /\ pc = "titles_done"
    /\ DOMAIN table0 = { 1, 2 }
    /\ DOMAIN title_df_from_imdb = { 1, 2 }
    /\ table0[1].num_votes = 1000 /\ title_df_from_imdb[1] = 1050
    /\ table0[2].num_votes = 1000 /\ title_df_from_imdb[2] = 1049
    /\ table0[1].needsUpdate = FALSE
    /\ rows_sent = << [ id |-> 1, num_votes |-> 1050, needsUpdate |-> TRUE ] >>
    /\ titles_table[1] =
         [ num_votes |-> 1050, needsUpdate |-> TRUE, firstWorld |-> "true" ]
    /\ titles_table[2] = table0[2]

\* C6: on the first run (empty persisted snapshot) a completed update_title_table
\* has upserted every row of the catalog, no other row, each once and each with
\* needsUpdate = true.
C6_FirstRunTakesAll ==
    (pc = "titles_done" /\ DOMAIN table0 = { }) =>
        /\ SeqSet(rows_sent) =
             { [ id |-> t, num_votes |-> title_df_from_imdb[t], needsUpdate |-> TRUE ] :
                 t \in DOMAIN title_df_from_imdb }
        /\ Len(rows_sent) = Cardinality(DOMAIN title_df_from_imdb)
        /\ DOMAIN titles_table = DOMAIN title_df_from_imdb
        /\ \A t \in DOMAIN titles_table : titles_table[t].needsUpdate = TRUE

C6_Witness ==
    /\ pc = "titles_done"
    /\ DOMAIN table0 = { }
    /\ DOMAIN title_df_from_imdb = { 1, 2 }
    /\ Len(rows_sent) = 2

\* C8: a fetched review is in the frame the session returns iff its rating is
\* present, num_helpful > min_helpful_votes and num_words >= min_review_words;
\* the returned frame keeps the order and holds nothing else. With thresholds
\* (1, 100), (rating 7, helpful 2, words 150) passes and a review without
\* rating never does.
C8_ReviewFilter ==
    pc = "returned" =>
        /\ \A k \in 1..Len(reviews) :
             InSeq(reviews[k], review_df) <=>
                 /\ reviews[k].rating # NoRating
                 /\ reviews[k].num_helpful > min_helpful_votes
                 /\ reviews[k].num_words >= min_review_words
        /\ \A k \in 1..Len(review_df) : InSeq(review_df[k], reviews)
        /\ \A i, j \in 1..Len(review_df) :
             i < j => review_df[i].review_id < review_df[j].review_id
        /\ \A k \in 1..Len(reviews) :
             /\ reviews[k].rating = NoRating => ~InSeq(reviews[k], review_df)
             /\ ( /\ min_helpful_votes = 1 /\ min_review_words = 100
                  /\ reviews[k].rating = 7 /\ reviews[k].num_helpful = 2
                  /\ reviews[k].num_words = 150 ) => InSeq(reviews[k], review_df)

C8_Witness ==
    /\ pc = "returned"
    /\ Len(reviews) = 2
    /\ reviews[1].rating = NoRating /\ reviews[1].num_helpful = 2
    /\ reviews[1].num_words = 150
    /\ reviews[2].rating = 7 /\ reviews[2].num_helpful = 2
    /\ reviews[2].num_words = 150
    /\ review_df = << reviews[2] >>

\* C9: a session whose every request is answered with a page, hasNextPage true
\* three times and then false, goes on after each of the first three pages,
\* has issued exactly 4 requests when it stops, holds the reviews of exactly
\* those 4 pages in page order, and ends by returning (it does not raise).
C9_PaginationTermination ==
    /\ ( /\ faults = 0
         /\ answers \in { << TRUE >>, << TRUE, TRUE >>, << TRUE, TRUE, TRUE >> } )
       => (InSession /\ has_next_page /\ reviews = PagesUpTo(Len(answers)))
    /\ (faults = 0 /\ answers = << TRUE, TRUE, TRUE, FALSE >>) =>
         /\ nreq = 4
         /\ ~has_next_page
         /\ pc = "while" \/ AfterSession
         /\ reviews = PagesUpTo(4)
         /\ AfterSession => review_df = filtered_df(PagesUpTo(4))
    /\ (faults = 0 /\ Len(answers) > 4) =>
         SubSeq(answers, 1, 4) # << TRUE, TRUE, TRUE, FALSE >>

C9_Witness ==
    /\ pc = "returned"
    /\ faults = 0
    /\ nreq = 4
    /\ answers = << TRUE, TRUE, TRUE, FALSE >>
    /\ profile = "mixed"
    /\ Len(reviews) = 8
    /\ Len(review_df) = 4

\* C10: a session that has received 3 None responses in a row issues no further
\* request, does not raise, and returns the filtered reviews of the pages it
\* had received before.
C10_FailureBudget ==
    /\ none_run <= SCRAPER_MAX_CONSECUTIVE_FAILURES
    /\ none_run = SCRAPER_MAX_CONSECUTIVE_FAILURES =>
         /\ ~has_next_page
         /\ pc = "while" \/ AfterSession
         /\ reviews = PagesUpTo(Len(answers))
         /\ AfterSession => review_df = filtered_df(PagesUpTo(Len(answers)))

C10_Witness ==
    /\ pc = "returned"
    /\ none_run = 3
    /\ answers = << TRUE >>
    /\ Len(reviews) = 2
    /\ Len(review_df) = 1

\* C11: the wait slept before the retry that follows the n-th rate-limited
\* response in a row to a request is min(baseWait * n, maxWait); with
\* baseWait = 60 and maxWait = 300 the waits of attempts 1..6 are
\* 60, 120, 180, 240, 300, 300.
C11_BackoffWaits ==
    (pc = "request" /\ retry_count >= 1) =>
        /\ wait_time = Min(RATE_LIMIT_BASE_WAIT_SECONDS * retry_count,
                           RATE_LIMIT_MAX_WAIT_SECONDS)
        /\ ( /\ RATE_LIMIT_BASE_WAIT_SECONDS = 60
             /\ RATE_LIMIT_MAX_WAIT_SECONDS = 300
             /\ retry_count <= 6 )
           => wait_time = << 60, 120, 180, 240, 300, 300 >>[retry_count]
        /\ answers = << >> => rate_limits = retry_count

C11_Witness ==
    /\ pc = "request"
    /\ answers = << >>
    /\ rate_limits = 6
    /\ retry_count = 6
    /\ wait_time = 300


\* C12: the rate-limit attempt number is scoped to the title: whenever a request
\* of a session is in flight, the attempt counter equals the number of
\* rate-limited responses the session has absorbed so far (a page or a None
\* response does not reset it), so a session never absorbs more rate-limited
\* responses than the fixed maximum.
C12_AttemptScopedToTitle ==
    pc = "request" =>
        /\ retry_count = rate_limits
        /\ rate_limits <= SCRAPER_MAX_RETRIES


\* C13: with a maximum of M = 3 rate-limit retries, the session raises on a
\* rate-limited response only when M retries of the request have already been
\* made: at the step that raises, the retries made on the cursor number M.
C13_RetryBound ==
    [][ ( /\ pc = "request"
          /\ last_response' = "RateLimitError"
          /\ pc' = "for" )
        => retry_count = SCRAPER_MAX_RETRIES ]_vars


\* C14: a rate-limited response that does not exhaust the retries leaves the
\* session's cursor, hasNextPage, accumulated reviews and consecutiveFailures
\* as they were, and the next request is in flight with the same cursor: rate
\* limiting does not count against the transient-failure budget.
C14_RateLimitFrame ==
    [][ ( /\ pc = "request"
          /\ last_response' = "RateLimitError"
          /\ pc' # "for" )
        => /\ pc' = "request"
           /\ cursor' = cursor
           /\ has_next_page' = has_next_page
           /\ reviews' = reviews
           /\ consecutive_failures' = consecutive_failures
           /\ idx' = idx ]_vars

C14_Witness ==
    /\ pc = "request"
    /\ last_response = "RateLimitError"
    /\ rate_limits = 1
    /\ consecutive_failures = 2
    /\ cursor = 1
    /\ Len(reviews) = 2
    /\ has_next_page


\* The responses that fail validation: no JSON, no data or no title/reviews
\* structure, a reviews payload without edges, a reviews payload without
\* pageInfo.
ValidationFailures == { "DataValidationError", "KeyError", "no_pageInfo" }

\* C15: a response that fails validation is fatal for the title: once the
\* session has received one, it is over with an exception (no request in
\* flight, no normal return) and the iteration of the title ended by the raise.
C15_ValidationFatal ==
    last_response \in ValidationFailures =>
        /\ pc \in { "for", "done" }
        /\ idx > 1
        /\ status[idx - 1] = "fetch_raised"


\* C16: a network failure on a request ends the session at once with the
\* exception, whatever retry_count and consecutive_failures are: the step that
\* receives it leaves no request in flight, ends the title's iteration as
\* raised and lets the loop move on; the failure is never retried.
C16_NetworkFatal ==
    [][ (pc = "request" /\ last_response' = "NetworkError")
        => /\ pc' = "for"
           /\ idx' = idx + 1
           /\ status' = [ status EXCEPT ![idx] = "fetch_raised" ]
           /\ titles_table' = titles_table
           /\ reviews_table' = reviews_table ]_vars

C16_Witness ==
    /\ pc = "for"
    /\ last_response = "NetworkError"
    /\ Len(titles_to_update) = 2
    /\ idx = 2
    /\ status = << "fetch_raised", "pending" >>
    /\ discarded = { titles_to_update[1] }


\* C17: a title whose session raised after it had accumulated reviews gets no
\* partial result: the caller holds no frame of it when the iteration is over,
\* no upsert call is made for it and the review store holds none of its reviews.
C17_NoPartialResult ==
    \A t \in discarded :
        /\ t \notin upserted_for
        /\ \A j \in 1..Len(reviews_table) : reviews_table[j].title_id # t
        /\ \A k \in Positions :
             titles_to_update[k] = t =>
                 /\ status[k] = "fetch_raised"
                 /\ ~(AfterSession /\ idx = k)

C17_Witness ==
    /\ pc = "done"
    /\ Len(titles_to_update) = 2
    /\ status = << "fetch_raised", "marked" >>
    /\ discarded = { titles_to_update[1] }
    /\ Len(reviews_table) > 0
    /\ upserted_for = { titles_to_update[2] }


\* C18: within a title the request in flight carries the empty cursor when no
\* page has arrived yet and otherwise the endCursor of the latest page received
\* (failed responses in between change nothing), and the accumulated reviews
\* are the reviews of the pages received, in the order they were fetched.
C18_CursorOrder ==
    /\ (InSession /\ has_next_page) =>
         cursor = IF answers = << >> THEN EmptyCursor
                  ELSE SourcePage(profile, title_code, Len(answers) - 1,
                                  TRUE).pageInfo.endCursor
    /\ (InSession \/ AfterSession) =>
         reviews = PagesUpTo(Len(answers)
                             + IF last_response = "no_pageInfo" THEN 1 ELSE 0)

C18_Witness ==
    /\ pc = "request"
    /\ profile = "mixed"
    /\ answers = << TRUE, TRUE >>
    /\ faults = 2
    /\ consecutive_failures = 1
    /\ retry_count = 1
    /\ cursor = 2
    /\ Len(reviews) = 4
    /\ reviews[1].review_id < reviews[3].review_id


\* C19: the needsUpdate flag of a title is written only by a step taken after
\* every batch of the title's accepted reviews has been upserted; while the
\* upsert is under way the flag has not been written, and a title whose upsert
\* or mark failed keeps the flag it had (with whatever batches were persisted
\* before the failure).
C19_MarkAfterUpsert ==
    /\ [](\A k \in Positions :
            status[k] \in { "upsert_failed", "mark_failed" } =>
                /\ titles_to_update[k] \notin flag_writes
                /\ titles_table[titles_to_update[k]].needsUpdate
                     = table0[titles_to_update[k]].needsUpdate)
    /\ [](pc \in { "upsert", "mark" } => title_id \notin flag_writes)
    /\ [][ flag_writes' # flag_writes =>
             /\ pc = "mark"
             /\ flag_writes' = flag_writes \cup { title_id }
             /\ review_df # << >>
             /\ batch_i >= Len(review_df)
             /\ \A k \in 1..Len(review_df) :
                  \E j \in 1..Len(reviews_table) : reviews_table[j] = review_df[k] ]_vars

C19_Witness ==
    /\ pc = "done"
    /\ status = << "upsert_failed" >>
    /\ table0[titles_to_update[1]].needsUpdate = TRUE
    /\ titles_table[titles_to_update[1]].needsUpdate = TRUE
    /\ Len(reviews_table) = batch_size
    /\ reviews_table[1].title_id = titles_to_update[1]


\* The rows one successful processing of the title of SpecRerun persists.
RerunRows ==
    SeqSet(filtered_df(source_reviews(rerun.profile,
                                      format_imdb_id(titles_to_update[1]),
                                      rerun.pages)))

\* C20: however many times a title is processed again with the same source
\* responses (after runs whose upsert or mark failed), the review store never
\* holds two rows with one review_id, and once a processing has succeeded it
\* holds exactly the rows a single successful processing persists.
C20_RerunSafe ==
    /\ \A i, j \in 1..Len(reviews_table) :
         i # j => reviews_table[i].review_id # reviews_table[j].review_id
    /\ (\E k \in Positions : status[k] = "marked") =>
         /\ SeqSet(reviews_table) = RerunRows
         /\ Len(reviews_table) = Cardinality(RerunRows)

C20_Witness ==
    /\ pc = "done"
    /\ status = << "upsert_failed", "mark_failed", "marked" >>
    /\ rerun = [ profile |-> "mixed", pages |-> 3 ]
    /\ Len(reviews_table) = 3
    /\ SeqSet(reviews_table) = RerunRows


\* The rows of a sequence of batches, in order.
RECURSIVE Flatten(_)
Flatten(batches) ==
    IF batches = << >> THEN << >> ELSE Head(batches) \o Flatten(Tail(batches))

\* C21: upsert_batch on n > 0 rows with batch size b makes ceil(n / b) store
\* calls whose batches, concatenated in call order, are the input: every batch
\* but the last has exactly b rows and the last has between 1 and b. On an
\* empty frame no store call is made.
C21_BatchedUpsert ==
    LET n == Len(review_df)
        calls == Len(upsert_calls)
    IN  /\ pc \in { "upsert", "mark" } =>
             /\ n > 0
             /\ Flatten(upsert_calls) = SubSeq(review_df, 1, Min(calls * batch_size, n))
             /\ \A k \in 1..calls :
                    /\ Len(upsert_calls[k]) \in 1..batch_size
                    /\ k < calls => Len(upsert_calls[k]) = batch_size
        /\ pc = "upsert" => calls * batch_size < n
        /\ pc = "mark" =>
             /\ Flatten(upsert_calls) = review_df
             /\ calls * batch_size >= n
             /\ (calls - 1) * batch_size < n
        /\ pc = "returned" => upsert_calls = << >>
        /\ \A k \in Positions :
               status[k] = "empty" => titles_to_update[k] \notin upserted_for

C21_Witness ==
    /\ pc = "mark"
    /\ Len(review_df) = 2 * batch_size + 1
    /\ Len(upsert_calls) = 3
    /\ Len(upsert_calls[3]) = 1


\* C24: the list update_reviews_table builds for itself holds exactly the
\* persisted titles with needsUpdate = true and firstWorld = true, each once; a
\* title with needsUpdate = true whose firstWorld is false or unknown is never
\* fetched and keeps needsUpdate = true, and no title with needsUpdate = false
\* is fetched.
C24_DefaultWorkList ==
    pc # "titles_done" =>
        /\ SeqSet(titles_to_update)
             = { t \in DOMAIN table0 :
                   table0[t].needsUpdate /\ table0[t].firstWorld = "true" }
        /\ Len(titles_to_update) = Cardinality(SeqSet(titles_to_update))
        /\ (InSession \/ AfterSession) =>
               /\ table0[title_id].needsUpdate
               /\ table0[title_id].firstWorld = "true"
        /\ \A t \in DOMAIN table0 :
               /\ (table0[t].needsUpdate /\ table0[t].firstWorld # "true") =>
                      /\ titles_table[t].needsUpdate
                      /\ t \notin upserted_for \cup flag_writes \cup discarded
                      /\ \A k \in 1..Len(reviews_table) : reviews_table[k].title_id # t
               /\ ~table0[t].needsUpdate =>
                      /\ t \notin upserted_for \cup flag_writes \cup discarded
                      /\ \A k \in 1..Len(reviews_table) : reviews_table[k].title_id # t

C24_Witness ==
    /\ pc = "done"
    /\ table0[1].needsUpdate /\ table0[1].firstWorld = "true"
    /\ table0[2].needsUpdate /\ table0[2].firstWorld = "null"
    /\ status = << "marked" >>
    /\ titles_table[2].needsUpdate
    /\ ~titles_table[1].needsUpdate


\* What the end-to-end scenario promises from the title update on: the title
\* is flagged and carries the catalog's votes when the title update is over,
\* and when the review update is over exactly one review of it is stored and
\* its needsUpdate is false. table0 is the store as the title update found it.
ScenarioOutcome ==
    /\ pc = "titles_done" =>
         /\ titles_table[100].needsUpdate
         /\ titles_table[100].num_votes = 2000
    /\ pc = "done" =>
         /\ Len(reviews_table) = 1
         /\ reviews_table[1].title_id = 100
         /\ ~titles_table[100].needsUpdate

\* C22 as stated: with the catalog holding id 100 at 2000 votes and the store
\* holding it at 1000 votes with needsUpdate = false, the title update flags it,
\* the review update fetches its page of two reviews, and in the end exactly
\* one review is stored and needsUpdate is false.
C22_EndToEnd ==
    ( /\ 100 \in DOMAIN table0
      /\ table0[100].num_votes = 1000
      /\ ~table0[100].needsUpdate
      /\ title_df_from_imdb[100] = 2000 ) => ScenarioOutcome

\* C22, amended: the same, for a persisted title whose firstWorld is true.
C22_EndToEndFirstWorld ==
    ( /\ 100 \in DOMAIN table0
      /\ table0[100] =
            [ num_votes |-> 1000, needsUpdate |-> FALSE, firstWorld |-> "true" ]
      /\ title_df_from_imdb[100] = 2000 ) => ScenarioOutcome

C22_Witness ==
    /\ pc = "done"
    /\ 100 \in DOMAIN table0
    /\ table0[100] = [ num_votes |-> 1000, needsUpdate |-> FALSE, firstWorld |-> "true" ]
    /\ title_df_from_imdb[100] = 2000
    /\ rows_sent = << [ id |-> 100, num_votes |-> 2000, needsUpdate |-> TRUE ] >>
    /\ status = << "marked" >>
    /\ Len(reviews_table) = 1
    /\ titles_table[100] =
         [ num_votes |-> 2000, needsUpdate |-> FALSE, firstWorld |-> "true" ]


\* How many of the finished iterations ended in one of the given ways.
Ended(ways) == Cardinality({ k \in Positions : status[k] \in ways })

\* C23: the orchestrator counts the titles it updated (flag cleared), skipped
\* (no reviews) and errored (iteration raised), and its final report states the
\* three counts, which add up to the number of titles whose iteration finished.
C23_RunCounts ==
    pc = "done" =>
        /\ { "updated", "skipped", "errored" } \subseteq DOMAIN final_report
        /\ final_report.updated = Ended({ "marked" })
        /\ final_report.skipped = Ended({ "empty" })
        /\ final_report.errored = Ended({ "fetch_raised", "upsert_failed", "mark_failed" })
        /\ final_report.updated + final_report.skipped + final_report.errored
             = Len(titles_to_update)


\* C25: every place that formats the id of a title yields "tt" followed by the
\* decimal id, zero-padded to at least 7 digits and never truncated, and the
\* code with its prefix stripped parses back to the id, for every id >= 0.
C25_TitleCode ==
    LET id == titles_to_update[1]
        digits == SubSeq(imdb_id, 3, Len(imdb_id))
    IN  /\ pc \in { "title_code", "imdb_id", "parsed" } =>
             /\ SubSeq(imdb_id, 1, 2) = << "t", "t" >>
             /\ Len(digits) = IF Len(Digits(id)) > 7 THEN Len(Digits(id)) ELSE 7
             /\ SubSeq(digits, Len(digits) - Len(Digits(id)) + 1, Len(digits)) = Digits(id)
             /\ \A k \in 1..(Len(digits) - Len(Digits(id))) : digits[k] = "0"
        /\ pc = "parsed" => \A k \in 1..Len(reviews) : reviews[k].title_id = id


\* C26: over any sequence and interleaving of get_client calls of any number
\* of threads, only one store client is ever created, and every call returns
\* that same object.
C26_SingleClient ==
    /\ manager.created <= 1
    /\ Cardinality(manager.returned) <= 1


\* C27: a successful page resets consecutive_failures to 0, so the counter
\* holds the None responses received since the latest page, and a session is
\* abandoned only when 3 of them came without a page in between: as long as
\* every such run is shorter than 3 the session goes on, however many
\* failures it has seen in total.
C27_PageResetsFailures ==
    InSession =>
        /\ last_response = "page" => consecutive_failures = 0
        /\ consecutive_failures = nones_since_page
        /\ ~has_next_page =>
               \/ last_response \in { "page", "no_pageInfo" }
               \/ nones_since_page >= SCRAPER_MAX_CONSECUTIVE_FAILURES

C27_Witness ==
    /\ pc = "request"
    /\ has_next_page
    /\ faults = 3
    /\ rate_limits = 0
    /\ nones_since_page = 1
    /\ Len(answers) = 2


\* C28: a None response that leaves the counter below the threshold adds
\* exactly 1 to consecutive_failures and changes neither the cursor nor
\* has_next_page nor the accumulated reviews, and the request that follows is
\* made with the same cursor.
C28_TransientFailureFrame ==
    [][ /\ (pc = "request" /\ last_response' = "None") =>
              /\ consecutive_failures' = consecutive_failures + 1
              /\ consecutive_failures' < SCRAPER_MAX_CONSECUTIVE_FAILURES =>
                     /\ cursor' = cursor
                     /\ has_next_page' = has_next_page
                     /\ reviews' = reviews
                     /\ pc' = "while"
        /\ (pc = "while" /\ pc' = "request") =>
              /\ cursor' = cursor
              /\ reviews' = reviews ]_vars

C28_Witness ==
    /\ pc = "request"
    /\ last_response = "None"
    /\ consecutive_failures = 2
    /\ has_next_page
    /\ cursor = 1
    /\ reviews # << >>


\* C29: the orchestrator is a plain loop without retries: every entry of the
\* list starts exactly one fetch session, the sessions are started one at a
\* time in list order, and a title whose iteration raised is not attempted
\* again in the run.
C29_OneSessionPerEntry ==
    LET n == IF pc \in { "for", "done" } THEN idx - 1 ELSE idx
    IN  /\ sessions = [ k \in 1..n |-> k ]
        /\ n <= Len(titles_to_update)
        /\ pc = "done" => n = Len(titles_to_update)
        /\ \A k \in Positions :
               status[k] # "pending" =>
                   Cardinality({ j \in 1..Len(sessions) : sessions[j] = k }) = 1

C29_Witness ==
    /\ pc = "done"
    /\ sessions = << 1, 2 >>
    /\ status[1] = "fetch_raised"
    /\ status[2] = "marked"


\* The shape get_json_reviews expects of a body: an object whose
\* data.title.reviews member exists.
HasReviewsMember(body) ==
    /\ HasKey(body, "data")
    /\ HasKey(body.members.data, "title")
    /\ HasKey(body.members.data.members.title, "reviews")

\* C30: one page request ends in exactly one of five ways, decided by the
\* response: HTTP 429 raises RateLimitError; a status >= 500 or a null reviews
\* payload returns None; any other 4xx, a timeout or a connection error raises
\* NetworkError; a body that is not JSON or has the wrong shape raises
\* DataValidationError; anything else is a page.
C30_OutcomeClassification ==
    pc = "classified" =>
        LET r == response
            answered == r.transport = "response"
            passed == answered /\ r.status_code < 400
            null_reviews ==
                /\ HasReviewsMember(r.body)
                /\ r.body.members.data.members.title.members.reviews.type = "null"
        IN  /\ outcome \in { "RateLimitError", "None", "NetworkError",
                             "DataValidationError", "page" }
            /\ outcome = "RateLimitError" <=>
                   answered /\ r.status_code = HTTP_STATUS_RATE_LIMITED
            /\ outcome = "None" <=>
                   \/ answered /\ r.status_code >= 500
                   \/ passed /\ null_reviews
            /\ outcome = "NetworkError" <=>
                   \/ ~answered
                   \/ (answered /\ r.status_code \in 400..499
                        /\ r.status_code # HTTP_STATUS_RATE_LIMITED)
            /\ outcome = "DataValidationError" <=>
                   passed /\ ~HasReviewsMember(r.body)
            /\ outcome = "page" <=>
                   passed /\ HasReviewsMember(r.body) /\ ~null_reviews



\* C31: when the store call for a batch of upsert_batch fails, the call raises
\* at once: the step that leaves the batch loop without reaching the mark
\* records the failure for the title, writes nothing, leaves the batches
\* accepted before it persisted and the failing batch and every later one
\* unsent; a step of the loop that stays in upsert_batch has persisted its
\* batch, and after the failure the store is not written again for the title.
C31_UpsertFailureRaised ==
    /\ [][ pc = "upsert" =>
             \/ /\ pc' \in { "upsert", "mark" }
                /\ reviews_table' = UpsertReviews(reviews_table, Batch(review_df, batch_i))
                /\ upsert_calls' = Append(upsert_calls, Batch(review_df, batch_i))
                /\ status' = status
             \/ /\ pc' = "for"
                /\ status' = [ status EXCEPT ![idx] = "upsert_failed" ]
                /\ reviews_table' = reviews_table
                /\ flag_writes' = flag_writes
                /\ Len(upsert_calls) * batch_size = batch_i
                /\ batch_i < Len(review_df)
                /\ Flatten(upsert_calls) = SubSeq(review_df, 1, batch_i)
                /\ \A k \in 1..batch_i :
                     \E j \in 1..Len(reviews_table) : reviews_table[j] = review_df[k]
                /\ \A k \in (batch_i + 1)..Len(review_df) :
                     \A j \in 1..Len(reviews_table) : reviews_table[j] # review_df[k] ]_vars
    /\ [][ (\E k \in Positions : status[k] = "upsert_failed") =>
             reviews_table' = reviews_table ]_vars

C31_Witness ==
    /\ pc = "done"
    /\ status = << "upsert_failed" >>
    /\ Len(reviews_table) = 2 * batch_size
    /\ titles_to_update[1] \notin flag_writes


\* C32: no state of a fetch session passes from one title to the next: the step
\* that starts a title's session, whatever the status the title before ended
\* with, leaves the cursor empty, has_next_page true, the failure counter at 0
\* and the review list empty; and every review collected, framed or written to
\* the store while a title is processed carries the id of that title.
C32_SessionPerTitle ==
    /\ [][ pc = "for" /\ pc' \notin { "for", "done" } =>
             /\ pc' = "while"
             /\ cursor' = EmptyCursor
             /\ has_next_page' = TRUE
             /\ consecutive_failures' = 0
             /\ retry_count' = 0
             /\ reviews' = << >> ]_vars
    /\ [](pc \notin { "for", "done" } =>
            /\ \A k \in 1..Len(reviews) : reviews[k].title_id = title_id
            /\ \A k \in 1..Len(review_df) : review_df[k].title_id = title_id
            /\ \A b \in 1..Len(upsert_calls) :
                 \A k \in 1..Len(upsert_calls[b]) :
                     upsert_calls[b][k].title_id = title_id)
    /\ [][ pc \notin { "for", "done" } =>
             \A j \in 1..Len(reviews_table') :
                 (\A i \in 1..Len(reviews_table) : reviews_table[i] # reviews_table'[j])
                     => reviews_table'[j].title_id = title_id ]_vars

C32_Witness ==
    /\ pc = "mark"
    /\ idx = 2
    /\ status[1] = "fetch_raised"
    /\ titles_to_update[1] \in discarded
    /\ reviews_table # << >>
    /\ \A j \in 1..Len(reviews_table) : reviews_table[j].title_id = titles_to_update[2]


\* C33: in every state of a fetch session the counter of consecutive failures
\* is between 0 and 3; once it is 3, has_next_page is false, no request is in
\* flight and none is issued for the rest of the session; a rate-limited
\* response that is retried leaves the counter as it was.
C33_FailureCounterBounds ==
    /\ [](/\ 0 <= consecutive_failures
          /\ consecutive_failures <= SCRAPER_MAX_CONSECUTIVE_FAILURES)
    /\ [](consecutive_failures = SCRAPER_MAX_CONSECUTIVE_FAILURES =>
            /\ ~has_next_page
            /\ pc \in { "while", "returned" })
    /\ [][ consecutive_failures = SCRAPER_MAX_CONSECUTIVE_FAILURES =>
             /\ consecutive_failures' = consecutive_failures
             /\ ~has_next_page'
             /\ nreq' = nreq ]_vars
    /\ [][ ( /\ pc = "request"
             /\ last_response' = "RateLimitError"
             /\ pc' = "request" )
           => consecutive_failures' = consecutive_failures ]_vars

C33_Witness ==
    /\ pc = "returned"
    /\ consecutive_failures = SCRAPER_MAX_CONSECUTIVE_FAILURES
    /\ none_run = 2
    /\ rate_limits = 1
    /\ answers = << TRUE >>
    /\ ~has_next_page


\* C34: for every max_retries >= 0 a fetch session that has started eventually
\* ends, by returning or by raising, and a session that has returned has
\* issued at least one request.
C34_SessionTerminates ==
    /\ (pc = "while") ~> (pc = "returned" \/ status[1] = "fetch_raised")
    /\ [](pc = "returned" => nreq >= 1)


\* C35: a run of the title update writes the selected rows only: a persisted
\* title that the catalog does not list, or lists with fewer than 1.05 times
\* the persisted count, keeps its row as it was, and a listed title is written
\* (flagged, with the catalog count) exactly when the catalog count has reached
\* 1.05 times the persisted one. The persisted count is therefore the count of
\* the last upsert, and a title that grows by less than 5% from run to run is
\* flagged in the first run whose catalog count reaches 1.05 times it.
C35_WritesSelectedOnly ==
    /\ [][ \A t \in DOMAIN titles_table :
             LET written == \E k \in 1..Len(rows_sent') : rows_sent'[k].id = t
                 listed == t \in DOMAIN title_df_from_imdb'
             IN  /\ t \in DOMAIN titles_table'
                 /\ written <=>
                      /\ listed
                      /\ title_df_from_imdb'[t] * 100
                           >= titles_table[t].num_votes * VOTE_INCREASE_THRESHOLD_PCT
                 /\ ~written => titles_table'[t] = titles_table[t]
                 /\ written =>
                      /\ titles_table'[t].needsUpdate
                      /\ titles_table'[t].num_votes = title_df_from_imdb'[t]
                      /\ titles_table'[t].firstWorld = titles_table[t].firstWorld ]_vars
    /\ [](\A t \in DOMAIN titles_table \cap DOMAIN title_df_from_imdb :
            /\ titles_table[t].num_votes <= title_df_from_imdb[t]
            /\ title_df_from_imdb[t] * 100
                 >= titles_table[t].num_votes * VOTE_INCREASE_THRESHOLD_PCT
                   => /\ titles_table[t].num_votes = title_df_from_imdb[t]
                      /\ titles_table[t].needsUpdate)

C35_Witness ==
    /\ pc = "titles_done"
    /\ DOMAIN title_df_from_imdb = { 1 }
    /\ title_df_from_imdb[1] = 1060
    /\ table0[1] = [ num_votes |-> 1000, needsUpdate |-> FALSE, firstWorld |-> "true" ]
    /\ titles_table[1] = [ num_votes |-> 1060, needsUpdate |-> TRUE, firstWorld |-> "true" ]
    /\ titles_table[2] = [ num_votes |-> 1000, needsUpdate |-> FALSE, firstWorld |-> "true" ]
    /\ rows_sent = << [ id |-> 1, num_votes |-> 1060, needsUpdate |-> TRUE ] >>


\* C36: once update_title_table has run and its upsert has been applied, a
\* further run against the same catalog selects and sends no row and leaves
\* the titles table, flags included, as it is, whatever the counts of the
\* catalog from 0 up.
C36_SecondRunIsEmpty ==
    [][ (pc = "titles_done" /\ pc' = "titles_done") =>
            /\ rows_selected' = << >>
            /\ rows_sent' = << >>
            /\ titles_table' = titles_table ]_vars


C38_BoundedCreateRetry ==
    /\ [](\A t \in Threads :
            /\ threads[t].attempt \in 0..DB_MAX_RETRIES
            /\ threads[t].attempt = DB_MAX_RETRIES <=> threads[t].pc = "line114"
            /\ threads[t].slept =
                  SubSeq(<< 1, 2 >>, 1, Min(threads[t].attempt, DB_MAX_RETRIES - 1)))
    /\ [][ \A t \in Threads :
             (threads[t].pc \in { "line71", "line80" } /\ threads'[t] # threads[t]) =>
                 \/ /\ threads'[t].pc = (IF threads[t].pc = "line71" THEN "line75" ELSE "line81")
                    /\ manager'.created = manager.created + 1
                    /\ manager'._client = manager'.created
                 \/ /\ threads[t].attempt < DB_MAX_RETRIES - 1
                    /\ threads'[t].pc = threads[t].pc
                    /\ threads'[t].attempt = threads[t].attempt + 1
                    /\ manager'._client = manager._client
                 \/ /\ threads[t].attempt = DB_MAX_RETRIES - 1
                    /\ threads'[t].pc = "line114"
                    /\ threads'[t].slept = threads[t].slept
                    /\ manager'._client = manager._client ]_vars
    /\ [][ \A t \in Threads :
             (threads[t].pc = "line114" /\ threads'[t] # threads[t]) =>
                 /\ threads'[t].pc = "idle"
                 /\ manager'._client = manager._client ]_vars

C38_Witness ==
    \E t \in Threads :
        /\ threads[t].pc = "line114"
        /\ threads[t].attempt = 3
        /\ threads[t].slept = << 1, 2 >>
        /\ manager._lock = t
        /\ manager._client = NoClient
        /\ manager.created = 2


\* C39: under every interleaving of get_client and close calls of the threads,
\* a get_client call that returns has returned a client object, never None.
C39_NeverReturnsNone ==
    NoClient \notin manager.returned

=============================================================================
